---- MODULE Spec2Model ----
(***************************************************************************)
(* Table allocation and occupancy consistency engine of the booking bot:   *)
(* src/src/database.py (class Database) backed by a Firestore client.      *)
(*                                                                         *)
(* The model covers a Database whose client is initialised.  Collections:  *)
(*   reservations  the reservation ledger (one document per reservation)   *)
(*   daily_slots   one document per date, field "occupancy"                *)
(*   slots         one document per "<date>_<time>" (booked_pax, tables)   *)
(* Every @firestore.transactional body is run as an optimistic             *)
(* transaction: a read step takes the snapshot of the documents the body   *)
(* reads, a finishing step runs the body on that snapshot and either       *)
(* returns, raises (rollback), commits, or is aborted because a document   *)
(* it read was written meanwhile, in which case the body is re-run, at     *)
(* most MaxAttempts times in all.                                          *)
(* name and phone are carried through unchanged by the code and are left   *)
(* out of the records.                                                     *)
(***************************************************************************)
EXTENDS Integers, Sequences, FiniteSets, TLC

\* ---------------------------------------------------------------- bounds
NumProcs == 2        \* concurrent callers; caller p acts for user p
MaxRes == 3          \* reservation ids ever handed out
MaxDate == 2         \* dates 1..MaxDate
MaxAttempts == 2     \* attempts of one transaction (retry budget)
MaxCalls == 3        \* calls issued in one behaviour

Procs == 1..NumProcs
Dates == 1..MaxDate
Times == {"12:00", "18:00"}
CreateTimes == {"12:00"}      \* bookings are made for the first time
PaxValues == {2, 39}            \* party sizes of Spec
AnyPax == {-1, 0, 2, 20}        \* party sizes of SpecBooking: int(args["pax"])
ResIds == 1..MaxRes

\* datetime.now().strftime("%Y-%m-%d"): dates before Today are past
Today == 2

UserOf(p) == p
AdminUser == 0

\* ---------------------------------------------------------------- catalog
TABLE_CONFIG ==
  << [id |-> "2F-B1", capacity |-> 6, floor |-> 2],
     [id |-> "2F-A1", capacity |-> 1, floor |-> 2],
     [id |-> "2F-A2", capacity |-> 1, floor |-> 2],
     [id |-> "2F-A3", capacity |-> 1, floor |-> 2],
     [id |-> "2F-A4", capacity |-> 1, floor |-> 2],
     [id |-> "2F-C1", capacity |-> 4, floor |-> 2],
     [id |-> "2F-D1", capacity |-> 4, floor |-> 2],
     [id |-> "3F-F1", capacity |-> 6, floor |-> 3],
     [id |-> "3F-E1", capacity |-> 1, floor |-> 3],
     [id |-> "3F-E2", capacity |-> 1, floor |-> 3],
     [id |-> "3F-E3", capacity |-> 1, floor |-> 3],
     [id |-> "3F-E4", capacity |-> 1, floor |-> 3],
     [id |-> "3F-G1", capacity |-> 4, floor |-> 3],
     [id |-> "3F-H1", capacity |-> 4, floor |-> 3],
     [id |-> "3F-I1", capacity |-> 4, floor |-> 3] >>

NumTables == Len(TABLE_CONFIG)
TableIds == {TABLE_CONFIG[i].id : i \in 1..NumTables}
TableIndex == [t \in TableIds |->
                 (CHOOSE i \in 1..NumTables : TABLE_CONFIG[i].id = t)]
CapacityOf(t) == TABLE_CONFIG[TableIndex[t]].capacity

\* sorted(TABLE_CONFIG.items(), key=capacity): stable, ascending
RankAsc(i) ==
  Cardinality({j \in 1..NumTables :
      \/ TABLE_CONFIG[j].capacity < TABLE_CONFIG[i].capacity
      \/ TABLE_CONFIG[j].capacity = TABLE_CONFIG[i].capacity /\ j < i}) + 1
\* table_configs without the sort: the tables in catalog order
table_configs_catalog == TABLE_CONFIG

table_configs ==
  [k \in 1..NumTables |->
     TABLE_CONFIG[CHOOSE i \in 1..NumTables : RankAsc(i) = k]]

\* sorted(..., key=capacity, reverse=True): stable, descending
RankDesc(i) ==
  Cardinality({j \in 1..NumTables :
      \/ TABLE_CONFIG[j].capacity > TABLE_CONFIG[i].capacity
      \/ TABLE_CONFIG[j].capacity = TABLE_CONFIG[i].capacity /\ j < i}) + 1
\* multi_table_configs without reverse=True: smallest tables first
multi_table_configs_ascending == table_configs

multi_table_configs ==
  [k \in 1..NumTables |->
     TABLE_CONFIG[CHOOSE i \in 1..NumTables : RankDesc(i) = k]]

NoTable == "none"

\* ---------------------------------------------------------------- state
VARIABLES
  reservations,           \* id -> reservation document (existing ones)
  daily_slots,            \* date -> occupancy (table id -> entry)
  slots,                  \* <<date, time>> -> [booked_pax, tables]
  nextId,                 \* next auto-generated reservation id
  pc,                     \* per caller: "idle", "read", "retry", "purge"
  op,                     \* per caller: the call in progress
  last,                   \* the call that completed most recently
  calls,                  \* number of calls issued so far
  read_after_write_rejected  \* the store raises on a read after a write

vars == <<reservations, daily_slots, slots, nextId, pc, op, last, calls,
          read_after_write_rejected>>
db == <<reservations, daily_slots, slots>>

Min(a, b) == IF a < b THEN a ELSE b
Max(a, b) == IF a > b THEN a ELSE b

Put(f, k, v) == [x \in DOMAIN f \cup {k} |-> IF x = k THEN v ELSE f[x]]
Drop(f, ks) == [x \in DOMAIN f \ ks |-> f[x]]

RECURSIVE SumPax(_)
SumPax(bookings) ==
  IF bookings = <<>> THEN 0
  ELSE bookings[1].pax + SumPax(Tail(bookings))

\* occupancy.get(table_id, {"booked_pax": 0})["booked_pax"]
BookedPax(occupancy, table_id) ==
  IF table_id \in DOMAIN occupancy THEN occupancy[table_id].booked_pax ELSE 0

\* ------------------------------------------------------------ allocation
\* BestTableFrom as a first fit: the first table in capacity order that can
\* hold the party, whatever it leaves over
RECURSIVE BestTableFirstFit(_, _, _, _, _)
BestTableFirstFit(occupancy, pax, k, best_table, min_remaining_after) ==
  IF k > NumTables THEN best_table
  ELSE IF table_configs[k].capacity
            - BookedPax(occupancy, table_configs[k].id) >= pax
       THEN table_configs[k].id
       ELSE BestTableFirstFit(occupancy, pax, k + 1, best_table,
                              min_remaining_after)

\* create_in_transaction step 2: the loop over table_configs, from index k
RECURSIVE BestTableFrom(_, _, _, _, _)
BestTableFrom(occupancy, pax, k, best_table, min_remaining_after) ==
  IF k > NumTables THEN best_table
  ELSE
    LET table_id == table_configs[k].id
        remaining == table_configs[k].capacity - BookedPax(occupancy, table_id)
        remaining_after == remaining - pax
        \* min_remaining_after starts at float('inf')
        better == best_table = NoTable \/ remaining_after < min_remaining_after
        new_best == IF better THEN table_id ELSE best_table
        new_min == IF better THEN remaining_after ELSE min_remaining_after
    IN IF remaining >= pax
       THEN IF remaining_after = 0
            THEN new_best                                   \* Perfect fill
            ELSE BestTableFrom(occupancy, pax, k + 1, new_best, new_min)
       ELSE BestTableFrom(occupancy, pax, k + 1, best_table,
                          min_remaining_after)

\* BestTable with step 2 left out: the party always goes to the greedy
\* consumption of step 3
BestTableSkipped(occupancy, pax) == NoTable

BestTable(occupancy, pax) == BestTableFrom(occupancy, pax, 1, NoTable, 0)

\* create_in_transaction step 3: the loop over multi_table_configs
RECURSIVE MultiTableFrom(_, _, _, _)
MultiTableFrom(occupancy, k, temp_pax, assigned_tables) ==
  IF k > NumTables \/ temp_pax <= 0
  THEN [assigned_tables |-> assigned_tables, temp_pax |-> temp_pax]
  ELSE
    LET table_id == multi_table_configs[k].id
        remaining == multi_table_configs[k].capacity
                       - BookedPax(occupancy, table_id)
        take == Min(temp_pax, remaining)
    IN IF remaining > 0
       THEN MultiTableFrom(occupancy, k + 1, temp_pax - take,
              Append(assigned_tables, [table_id |-> table_id, take |-> take]))
       ELSE MultiTableFrom(occupancy, k + 1, temp_pax, assigned_tables)

\* Allocate without the "if temp_pax > 0: raise" of step 3
AllocateUnchecked(occupancy, pax) ==
  LET best_table == BestTable(occupancy, pax)
      multi == MultiTableFrom(occupancy, 1, pax, <<>>)
  IN IF best_table # NoTable
     THEN [overbooked |-> FALSE,
           assigned_tables |-> <<[table_id |-> best_table, take |-> pax]>>]
     ELSE [overbooked |-> FALSE,
           assigned_tables |-> multi.assigned_tables \o
              (IF multi.temp_pax > 0
               THEN <<[table_id |-> "2F-B1", take |-> multi.temp_pax]>>
               ELSE <<>>)]

\* Allocate with "if temp_pax >= 0: raise" in step 3
AllocateOffByOne(occupancy, pax) ==
  LET best_table == BestTable(occupancy, pax)
      multi == MultiTableFrom(occupancy, 1, pax, <<>>)
  IN IF best_table # NoTable
     THEN [overbooked |-> FALSE,
           assigned_tables |-> <<[table_id |-> best_table, take |-> pax]>>]
     ELSE IF multi.temp_pax >= 0
          THEN [overbooked |-> TRUE, assigned_tables |-> <<>>]
          ELSE [overbooked |-> FALSE, assigned_tables |-> multi.assigned_tables]

\* Allocate whose choice among equally good tables changes from call to
\* call: every other call takes 2F-D1 where Allocate takes 2F-C1
AllocateByCall(occupancy, pax) ==
  LET best_table == BestTable(occupancy, pax)
      multi == MultiTableFrom(occupancy, 1, pax, <<>>)
  IN IF best_table # NoTable
     THEN [overbooked |-> FALSE,
           assigned_tables |->
             <<[table_id |-> IF best_table = "2F-C1" /\ nextId % 2 = 0
                             THEN "2F-D1" ELSE best_table,
                take |-> pax]>>]
     ELSE IF multi.temp_pax > 0
          THEN [overbooked |-> TRUE, assigned_tables |-> <<>>]
          ELSE [overbooked |-> FALSE, assigned_tables |-> multi.assigned_tables]

\* steps 2 and 3 together: the assignment, or overbooked
Allocate(occupancy, pax) ==
  LET best_table == BestTable(occupancy, pax)
      multi == MultiTableFrom(occupancy, 1, pax, <<>>)
  IN IF best_table # NoTable
     THEN [overbooked |-> FALSE,
           assigned_tables |-> <<[table_id |-> best_table, take |-> pax]>>]
     ELSE IF multi.temp_pax > 0
          THEN [overbooked |-> TRUE, assigned_tables |-> <<>>]
          ELSE [overbooked |-> FALSE, assigned_tables |-> multi.assigned_tables]

\* UpdateOccupancy that starts every assigned table from a fresh entry:
\* what was booked on a shared table is overwritten
RECURSIVE UpdateOccupancyFresh(_, _, _, _)
UpdateOccupancyFresh(occupancy, assigned_tables, res_id, time) ==
  IF assigned_tables = <<>> THEN occupancy
  ELSE
    LET tid == assigned_tables[1].table_id
        take_pax == assigned_tables[1].take
        updated == [booked_pax |-> take_pax,
                    bookings |-> <<[res_id |-> res_id, pax |-> take_pax,
                                    time |-> time]>>]
    IN UpdateOccupancyFresh(Put(occupancy, tid, updated),
                            Tail(assigned_tables), res_id, time)

\* create_in_transaction step 5: the loop over assigned_tables
RECURSIVE UpdateOccupancy(_, _, _, _)
UpdateOccupancy(occupancy, assigned_tables, res_id, time) ==
  IF assigned_tables = <<>> THEN occupancy
  ELSE
    LET tid == assigned_tables[1].table_id
        take_pax == assigned_tables[1].take
        entry == IF tid \in DOMAIN occupancy THEN occupancy[tid]
                 ELSE [booked_pax |-> 0, bookings |-> <<>>]
        updated == [booked_pax |-> entry.booked_pax + take_pax,
                    bookings |-> Append(entry.bookings,
                       [res_id |-> res_id, pax |-> take_pax, time |-> time])]
    IN UpdateOccupancy(Put(occupancy, tid, updated), Tail(assigned_tables),
                       res_id, time)

AllTables(assigned_tables) ==
  [i \in 1..Len(assigned_tables) |-> assigned_tables[i].table_id]

\* ------------------------------------------------------------ the store
\* snapshot.to_dict().get("occupancy", {}) or {} when the document is absent
ReadOccupancy(date) ==
  IF date \in DOMAIN daily_slots THEN daily_slots[date] ELSE <<>>

\* set(ref, {"occupancy": occupancy}, merge=True): entries of tables named
\* in occupancy are replaced, entries of other tables are kept
MergeOccupancy(stored, occupancy) ==
  [t \in DOMAIN stored \cup DOMAIN occupancy |->
     IF t \in DOMAIN occupancy THEN occupancy[t] ELSE stored[t]]

DocReservation(id) == [coll |-> "reservations", id |-> id, date |-> 0, time |-> ""]
\* DocDaily with every date's occupancy kept in one shared document
DocDailyShared(date) == [coll |-> "daily_slots", id |-> 0, date |-> 0, time |-> ""]
DocDaily(date) == [coll |-> "daily_slots", id |-> 0, date |-> date, time |-> ""]
DocSlot(date, time) == [coll |-> "slots", id |-> 0, date |-> date, time |-> time]

Idle == [kind |-> "none"]
NoLast == [kind |-> "none"]

Absent == [exists |-> FALSE]

\* reservation_ref.get(transaction=transaction)
ReadReservation(id) ==
  IF id \in DOMAIN reservations
  THEN [exists |-> TRUE, data |-> reservations[id]]
  ELSE Absent

\* client.collection("slots").document(f"{date}_{time}").get(...)
ReadSlot(date, time) ==
  IF <<date, time>> \in DOMAIN slots
  THEN [exists |-> TRUE, data |-> slots[<<date, time>>]]
  ELSE Absent

\* list.remove(x) guarded by "x in list": drops the first occurrence
RECURSIVE RemoveFirst(_, _)
RemoveFirst(seq, x) ==
  IF seq = <<>> THEN <<>>
  ELSE IF seq[1] = x THEN Tail(seq)
  ELSE <<seq[1]>> \o RemoveFirst(Tail(seq), x)

InSeq(seq, x) == \E i \in 1..Len(seq) : seq[i] = x

\* modify_in_transaction "Find best table in new slot": the loop over
\* available_tables (table_configs without the tables booked in the slot)
RECURSIVE NewTableFrom(_, _, _, _, _)
NewTableFrom(new_booked_tables, pax, k, new_table_id, min_diff) ==
  IF k > NumTables THEN new_table_id
  ELSE
    LET tid == table_configs[k].id
        diff == table_configs[k].capacity - pax
        better == new_table_id = NoTable \/ diff < min_diff
    IN IF ~InSeq(new_booked_tables, tid) /\ table_configs[k].capacity >= pax
       THEN IF diff = 0
            THEN (IF better THEN tid ELSE new_table_id)
            ELSE NewTableFrom(new_booked_tables, pax, k + 1,
                              IF better THEN tid ELSE new_table_id,
                              IF better THEN diff ELSE min_diff)
       ELSE NewTableFrom(new_booked_tables, pax, k + 1, new_table_id, min_diff)

NewTable(new_booked_tables, pax) ==
  NewTableFrom(new_booked_tables, pax, 1, NoTable, 0)

\* ------------------------------------------------- transaction bodies
\* What one run of a body does with the snapshot o holds: it raises, or
\* returns a result with the writes it queued (the collections as they are
\* after the writes are applied to the stored documents).
Raises(exc) ==
  [raised |-> TRUE, exc |-> exc, result |-> "", writes |-> {}, assigned |-> <<>>,
   reservations |-> reservations, daily_slots |-> daily_slots, slots |-> slots]
Returns(result) ==
  [raised |-> FALSE, exc |-> "", result |-> result, writes |-> {},
   assigned |-> <<>>,
   reservations |-> reservations, daily_slots |-> daily_slots, slots |-> slots]
Writes(result, writes, assigned, new_reservations, new_daily_slots, new_slots) ==
  [raised |-> FALSE, exc |-> "", result |-> result, writes |-> writes,
   assigned |-> assigned, reservations |-> new_reservations,
   daily_slots |-> new_daily_slots, slots |-> new_slots]

\* ReservationData that records the primary table only
ReservationDataPrimaryOnly(o, assigned_tables) ==
  [user_id |-> o.user_id, date |-> o.date, time |-> o.time, pax |-> o.pax,
   table_id |-> assigned_tables[1].table_id,
   all_tables |-> <<assigned_tables[1].table_id>>,
   status |-> "confirmed", updated_at |-> FALSE]

\* create_in_transaction step 4: reservation_data
ReservationData(o, assigned_tables) ==
  [user_id |-> o.user_id, date |-> o.date, time |-> o.time, pax |-> o.pax,
   table_id |-> assigned_tables[1].table_id,
   all_tables |-> AllTables(assigned_tables),
   status |-> "confirmed", updated_at |-> FALSE]

\* CreateWrites without step 5: the occupancy of the date is not written
CreateWritesLedgerOnly(o, assigned_tables) ==
  Writes("success", {DocReservation(o.res_id)},
         assigned_tables,
         Put(reservations, o.res_id, ReservationData(o, assigned_tables)),
         daily_slots,
         slots)

\* create_in_transaction steps 4 and 5 for the assignment found
CreateWrites(o, assigned_tables) ==
  Writes("success", {DocReservation(o.res_id), DocDaily(o.date)},
         assigned_tables,
         Put(reservations, o.res_id, ReservationData(o, assigned_tables)),
         Put(daily_slots, o.date,
             MergeOccupancy(ReadOccupancy(o.date),
                UpdateOccupancy(o.occupancy, assigned_tables, o.res_id, o.time))),
         slots)

create_in_transaction(o) ==
  IF o.alloc.overbooked THEN Raises("overbooked")
  ELSE IF o.alloc.assigned_tables = <<>> THEN Raises("IndexError")
  ELSE CreateWrites(o, o.alloc.assigned_tables)

\* the release of a table in a slot document: booked_pax and tables after
\* "max(0, booked - pax)" and "if table_id in tables: tables.remove(table_id)"
Released(slot_data, pax, table_id) ==
  [booked_pax |-> Max(0, slot_data.booked_pax - pax),
   tables |-> IF InSeq(slot_data.tables, table_id)
              THEN RemoveFirst(slot_data.tables, table_id)
              ELSE slot_data.tables]

\* delete_in_transaction after the reservation was found
DeleteWrites(o, data) ==
  Writes("true",
         {DocReservation(o.res_id)} \cup
           (IF o.snap_old.exists THEN {DocSlot(data.date, data.time)} ELSE {}),
         <<>>,
         Drop(reservations, {o.res_id}),
         daily_slots,
         IF o.snap_old.exists
         THEN Put(slots, <<data.date, data.time>>,
                  Released(o.snap_old.data, data.pax, data.table_id))
         ELSE slots)

delete_in_transaction(o) ==
  IF ~o.snap_res.exists THEN Returns("false")
  \* slot_ref.get comes after transaction.delete
  ELSE IF read_after_write_rejected THEN Raises("ReadAfterWriteError")
  ELSE DeleteWrites(o, o.snap_res.data)

\* new_slot_data.get("tables", []) and new_slot_data.get("booked_pax", 0)
BookedTables(snap) == IF snap.exists THEN snap.data.tables ELSE <<>>
SlotBookedPax(snap) == IF snap.exists THEN snap.data.booked_pax ELSE 0

\* modify_in_transaction steps 3 and 4: the slot documents after the move
MovedSlots(o, data, new_table_id) ==
  IF o.snap_old.exists
  THEN Put(Put(slots, <<o.date, o.time>>,
               [booked_pax |-> SlotBookedPax(o.snap_new) + data.pax,
                tables |-> Append(BookedTables(o.snap_new), new_table_id)]),
           <<data.date, data.time>>,
           Released(o.snap_old.data, data.pax, data.table_id))
  ELSE Put(slots, <<o.date, o.time>>,
           [booked_pax |-> SlotBookedPax(o.snap_new) + data.pax,
            tables |-> Append(BookedTables(o.snap_new), new_table_id)])

\* modify_in_transaction steps 2 to 4 for the table found
MoveWrites(o, data, new_table_id) ==
  Writes("success",
         {DocReservation(o.res_id), DocSlot(o.date, o.time)} \cup
           (IF o.snap_old.exists THEN {DocSlot(data.date, data.time)} ELSE {}),
         <<>>,
         Put(reservations, o.res_id,
             [data EXCEPT !.date = o.date, !.time = o.time,
                          !.table_id = new_table_id, !.updated_at = TRUE]),
         daily_slots,
         MovedSlots(o, data, new_table_id))

\* ModifyFound without the ownership check
ModifyFoundUnchecked(o, data) ==
  IF data.date = o.date /\ data.time = o.time
  THEN Writes("success", {DocReservation(o.res_id)}, <<>>,
              Put(reservations, o.res_id, [data EXCEPT !.updated_at = TRUE]),
              daily_slots, slots)
  ELSE IF o.new_table_id = NoTable THEN Returns("unavailable")
  ELSE IF read_after_write_rejected THEN Raises("ReadAfterWriteError")
  ELSE MoveWrites(o, data, o.new_table_id)

\* ModifyFound whose same-slot branch treats the call as a move within the
\* slot: the table search runs and the slot document is written
ModifyFoundSameSlotMoves(o, data) ==
  IF ~o.is_admin /\ data.user_id # o.user_id THEN Returns("permission_denied")
  ELSE IF data.date = o.date /\ data.time = o.time
       THEN Writes("success", {DocReservation(o.res_id), DocSlot(o.date, o.time)},
                   <<>>,
                   Put(reservations, o.res_id,
                       [data EXCEPT !.table_id = NewTable(<<>>, data.pax),
                                    !.updated_at = TRUE]),
                   daily_slots,
                   Put(slots, <<o.date, o.time>>,
                       [booked_pax |-> data.pax,
                        tables |-> <<NewTable(<<>>, data.pax)>>]))
  ELSE IF o.new_table_id = NoTable THEN Returns("unavailable")
  ELSE IF read_after_write_rejected THEN Raises("ReadAfterWriteError")
  ELSE MoveWrites(o, data, o.new_table_id)

\* modify_in_transaction for a reservation that was found
ModifyFound(o, data) ==
  IF ~o.is_admin /\ data.user_id # o.user_id THEN Returns("permission_denied")
  ELSE IF data.date = o.date /\ data.time = o.time
       THEN Writes("success", {DocReservation(o.res_id)}, <<>>,
                   Put(reservations, o.res_id, [data EXCEPT !.updated_at = TRUE]),
                   daily_slots, slots)
  ELSE IF o.new_table_id = NoTable THEN Returns("unavailable")
  \* old_slot_ref.get comes after transaction.update and transaction.set
  ELSE IF read_after_write_rejected THEN Raises("ReadAfterWriteError")
  ELSE MoveWrites(o, data, o.new_table_id)

\* modify_in_transaction without the "if not res_snapshot.exists" test:
\* to_dict() of a missing document is None and the body raises
ModifyMissingRaises(o) ==
  IF ~o.snap_res.exists THEN Raises("TypeError")
  ELSE ModifyFound(o, o.snap_res.data)

modify_in_transaction(o) ==
  IF ~o.snap_res.exists THEN Returns("not_found")
  ELSE ModifyFound(o, o.snap_res.data)

Body(o) ==
  CASE o.kind = "create" -> create_in_transaction(o)
    [] o.kind = "delete" -> delete_in_transaction(o)
    [] o.kind = "modify" -> modify_in_transaction(o)

\* OnException whose create clause answers "overbooked" for every
\* exception
OnExceptionOverbooked(kind, exc) ==
  CASE kind = "create" -> "overbooked"
    [] kind = "delete" -> "false"
    [] kind = "modify" -> "error"
    [] kind = "purge" -> "zero"

\* the except clauses of create_reservation, delete_reservation and
\* modify_reservation
OnException(kind, exc) ==
  CASE kind = "create" -> IF exc = "overbooked" THEN "overbooked" ELSE "none"
    [] kind = "delete" -> "false"
    [] kind = "modify" -> "error"
    [] kind = "purge" -> "zero"

\* ------------------------------------------------------------- actions
\* The reads of one run of the body, taken from the stored documents, with
\* what the body computes from them (the assignment, the new table).  A body
\* reads the slot documents only on the paths that reach those reads.
Moves(o, r) ==
  /\ o.kind = "modify"
  /\ r.exists
  /\ o.is_admin \/ r.data.user_id = o.user_id
  /\ ~(r.data.date = o.date /\ r.data.time = o.time)

ReadsOld(o, r, new_table_id) ==
  /\ ~read_after_write_rejected
  /\ \/ o.kind = "delete" /\ r.exists
     \/ Moves(o, r) /\ new_table_id # NoTable

SnapshotWith(o, r, snap_new, new_table_id) ==
  [o EXCEPT
     !.stale = FALSE,
     !.occupancy = IF o.kind = "create" THEN ReadOccupancy(o.date) ELSE <<>>,
     !.alloc = IF o.kind = "create"
               THEN Allocate(ReadOccupancy(o.date), o.pax)
               ELSE [overbooked |-> FALSE, assigned_tables |-> <<>>],
     !.snap_res = IF o.kind = "create" THEN Absent ELSE r,
     !.snap_new = snap_new,
     !.new_table_id = new_table_id,
     !.snap_old = IF ReadsOld(o, r, new_table_id)
                  THEN ReadSlot(r.data.date, r.data.time) ELSE Absent,
     !.reads = (IF o.kind = "create" THEN {DocDaily(o.date)}
                ELSE {DocReservation(o.res_id)})
               \cup (IF Moves(o, r) THEN {DocSlot(o.date, o.time)} ELSE {})
               \cup (IF ReadsOld(o, r, new_table_id)
                     THEN {DocSlot(r.data.date, r.data.time)} ELSE {})]

SnapshotMove(o, r, snap_new) ==
  SnapshotWith(o, r, snap_new,
               IF Moves(o, r) THEN NewTable(BookedTables(snap_new), r.data.pax)
               ELSE NoTable)

SnapshotFound(o, r) ==
  SnapshotMove(o, r, IF Moves(o, r) THEN ReadSlot(o.date, o.time) ELSE Absent)

Snapshot(o) == SnapshotFound(o, ReadReservation(o.res_id))

NewOp(kind, res_id, user_id, date, time, pax, is_admin) ==
  [kind |-> kind, res_id |-> res_id, user_id |-> user_id, date |-> date,
   time |-> time, pax |-> pax, is_admin |-> is_admin, attempt |-> 1,
   stale |-> FALSE, occupancy |-> <<>>,
   alloc |-> [overbooked |-> FALSE, assigned_tables |-> <<>>],
   snap_res |-> Absent, snap_new |-> Absent, new_table_id |-> NoTable,
   snap_old |-> Absent, reads |-> {}, docs |-> {}]

\* MarkStale without conflict detection: a commit aborts nobody
MarkStaleNever(p, written) ==
  [q \in Procs |-> IF q = p THEN Idle ELSE op[q]]

\* a committed write of the documents in written aborts every transaction
\* that has read one of them and has not finished
MarkStale(p, written) ==
  [q \in Procs |->
     IF q # p /\ pc[q] = "read" /\ op[q].reads \cap written # {}
     THEN [op[q] EXCEPT !.stale = TRUE]
     ELSE IF q = p THEN Idle ELSE op[q]]

\* the occupancy the store holds for one slot: the date's occupancy and the
\* slot document, an absent slot document counting as an empty one
SlotRecord(date, time) ==
  IF <<date, time>> \in DOMAIN slots THEN slots[<<date, time>>]
  ELSE [booked_pax |-> 0, tables |-> <<>>]
OccupancyAt(date, time) ==
  [daily |-> ReadOccupancy(date), slot |-> SlotRecord(date, time)]

\* the record of a completed call: its arguments, its answer and, for a
\* move, the slot left with the occupancy of the two slots just before the
\* move was committed
Completed(p, result, how, assigned, count) ==
  [kind |-> op[p].kind, res_id |-> op[p].res_id,
   date |-> op[p].date, time |-> op[p].time, pax |-> op[p].pax,
   attempt |-> op[p].attempt,
   result |-> result, how |-> how, assigned |-> assigned, count |-> count,
   before |-> IF how = "committed" /\ Moves(op[p], op[p].snap_res)
              THEN <<[date |-> op[p].snap_res.data.date,
                      time |-> op[p].snap_res.data.time,
                      occupancy |-> OccupancyAt(op[p].snap_res.data.date,
                                                op[p].snap_res.data.time)],
                     [date |-> op[p].date, time |-> op[p].time,
                      occupancy |-> OccupancyAt(op[p].date, op[p].time)]>>
              ELSE <<>>]

Init ==
  /\ reservations = <<>>
  /\ daily_slots = <<>>
  /\ slots = <<>>
  /\ nextId = 1
  /\ pc = [p \in Procs |-> "idle"]
  /\ op = [p \in Procs |-> Idle]
  /\ last = NoLast
  /\ calls = 0
  /\ read_after_write_rejected \in BOOLEAN

\* create_reservation is called: reservation_ref gets a fresh id and the
\* first run of create_in_transaction reads the date's occupancy
create_reservation(p, date, time, pax) ==
  /\ pc[p] = "idle"
  /\ calls < MaxCalls
  /\ calls' = calls + 1
  /\ nextId <= MaxRes
  /\ op' = [op EXCEPT ![p] =
              Snapshot(NewOp("create", nextId, UserOf(p), date, time, pax, FALSE))]
  /\ nextId' = nextId + 1
  /\ pc' = [pc EXCEPT ![p] = "read"]
  /\ UNCHANGED <<reservations, daily_slots, slots, last,
                 read_after_write_rejected>>

\* delete_reservation is called (app.py: the admin route)
delete_reservation(p, reservation_id) ==
  /\ pc[p] = "idle"
  /\ calls < MaxCalls
  /\ calls' = calls + 1
  /\ op' = [op EXCEPT ![p] =
              Snapshot(NewOp("delete", reservation_id, AdminUser, 0, "", 0, TRUE))]
  /\ pc' = [pc EXCEPT ![p] = "read"]
  /\ UNCHANGED <<reservations, daily_slots, slots, nextId, last,
                 read_after_write_rejected>>

\* modify_reservation is called, by the user (agents.py) or by the admin
\* route (app.py: user_id="admin", is_admin=True)
modify_reservation(p, reservation_id, new_date, new_time, is_admin) ==
  /\ pc[p] = "idle"
  /\ calls < MaxCalls
  /\ calls' = calls + 1
  /\ op' = [op EXCEPT ![p] =
              Snapshot(NewOp("modify", reservation_id,
                             IF is_admin THEN AdminUser ELSE UserOf(p),
                             new_date, new_time, 0, is_admin))]
  /\ pc' = [pc EXCEPT ![p] = "read"]
  /\ UNCHANGED <<reservations, daily_slots, slots, nextId, last,
                 read_after_write_rejected>>

Finish(p, result, how, assigned) ==
  /\ pc' = [pc EXCEPT ![p] = "idle"]
  /\ last' = Completed(p, result, how, assigned, 0)

\* the body raises: the transaction is rolled back and the except clause
\* of the caller turns the exception into the result
Raise(p, b) ==
  /\ b.raised
  /\ Finish(p, OnException(op[p].kind, b.exc), "raised", <<>>)
  /\ op' = [op EXCEPT ![p] = Idle]
  /\ UNCHANGED <<reservations, daily_slots, slots, nextId, calls,
                 read_after_write_rejected>>

TxnRaise(p) ==
  /\ pc[p] = "read"
  /\ Raise(p, Body(op[p]))

\* the body returns without having queued a write
Return(p, b) ==
  /\ ~b.raised
  /\ b.writes = {}
  /\ Finish(p, b.result, "returned", <<>>)
  /\ op' = [op EXCEPT ![p] = Idle]
  /\ UNCHANGED <<reservations, daily_slots, slots, nextId, calls,
                 read_after_write_rejected>>

TxnReturn(p) ==
  /\ pc[p] = "read"
  /\ Return(p, Body(op[p]))

\* the body returns with writes and no document it read has changed:
\* all its writes are applied at once
Commit(p, b) ==
  /\ ~b.raised
  /\ b.writes # {}
  /\ ~op[p].stale
  /\ reservations' = b.reservations
  /\ daily_slots' = b.daily_slots
  /\ slots' = b.slots
  /\ Finish(p, b.result, "committed", b.assigned)
  /\ op' = MarkStale(p, b.writes)
  /\ UNCHANGED <<nextId, calls, read_after_write_rejected>>

TxnCommit(p) ==
  /\ pc[p] = "read"
  /\ Commit(p, Body(op[p]))

\* the body returned with writes but a document it read has changed
Conflict(p, b) == ~b.raised /\ b.writes # {} /\ op[p].stale

\* TxnAbort that sends the writes of the aborted run again instead of
\* running the body again
TxnAbortResends(p) ==
  /\ pc[p] = "read"
  /\ Conflict(p, Body(op[p]))
  /\ op[p].attempt < MaxAttempts
  /\ pc' = pc
  /\ op' = [op EXCEPT ![p] =
              [op[p] EXCEPT !.attempt = op[p].attempt + 1, !.stale = FALSE]]
  /\ UNCHANGED <<reservations, daily_slots, slots, nextId, last, calls,
                 read_after_write_rejected>>

\* the commit is aborted by a conflict and attempts remain
TxnAbort(p) ==
  /\ pc[p] = "read"
  /\ Conflict(p, Body(op[p]))
  /\ op[p].attempt < MaxAttempts
  /\ pc' = [pc EXCEPT ![p] = "retry"]
  /\ op' = [op EXCEPT ![p] =
              [NewOp(op[p].kind, op[p].res_id, op[p].user_id, op[p].date,
                     op[p].time, op[p].pax, op[p].is_admin)
                 EXCEPT !.attempt = op[p].attempt + 1]]
  /\ UNCHANGED <<reservations, daily_slots, slots, nextId, last, calls,
                 read_after_write_rejected>>

\* the next run of the body reads the documents again
TxnRetry(p) ==
  /\ pc[p] = "retry"
  /\ pc' = [pc EXCEPT ![p] = "read"]
  /\ op' = [op EXCEPT ![p] = Snapshot(op[p])]
  /\ UNCHANGED <<reservations, daily_slots, slots, nextId, last,
                 calls,
                 read_after_write_rejected>>

\* the commit is aborted by a conflict and no attempt remains: the
\* transactional wrapper raises and the except clause answers
TxnExhausted(p) ==
  /\ pc[p] = "read"
  /\ Conflict(p, Body(op[p]))
  /\ op[p].attempt >= MaxAttempts
  /\ Finish(p, OnException(op[p].kind, "ValueError"), "contention", <<>>)
  /\ op' = [op EXCEPT ![p] = Idle]
  /\ UNCHANGED <<reservations, daily_slots, slots, nextId, calls,
                 read_after_write_rejected>>

\* the store fails during the transaction: nothing is written and the
\* except clause answers
StorageFault(p) ==
  /\ pc[p] = "read"
  /\ Finish(p, OnException(op[p].kind, "StorageError"), "fault", <<>>)
  /\ op' = [op EXCEPT ![p] = Idle]
  /\ UNCHANGED <<reservations, daily_slots, slots, nextId,
                 calls,
                 read_after_write_rejected>>

\* PurgeQuery with "<=" for "<": today's reservations are selected too
PurgeQueryThroughToday(p) ==
  /\ pc[p] = "idle"
  /\ calls < MaxCalls
  /\ calls' = calls + 1
  /\ op' = [op EXCEPT ![p] =
              [NewOp("purge", 0, AdminUser, 0, "", 0, TRUE) EXCEPT
                 !.docs = {id \in DOMAIN reservations :
                             reservations[id].date <= Today}]]
  /\ pc' = [pc EXCEPT ![p] = "purge"]
  /\ UNCHANGED <<reservations, daily_slots, slots, nextId, last,
                 read_after_write_rejected>>

\* delete_past_reservations: the query for date < today is streamed
PurgeQuery(p) ==
  /\ pc[p] = "idle"
  /\ calls < MaxCalls
  /\ calls' = calls + 1
  /\ op' = [op EXCEPT ![p] =
              [NewOp("purge", 0, AdminUser, 0, "", 0, TRUE) EXCEPT
                 !.docs = {id \in DOMAIN reservations :
                             reservations[id].date < Today}]]
  /\ pc' = [pc EXCEPT ![p] = "purge"]
  /\ UNCHANGED <<reservations, daily_slots, slots, nextId, last,
                 read_after_write_rejected>>

\* delete_past_reservations: the batch of deletes is committed if count > 0
PurgeCommit(p) ==
  /\ pc[p] = "purge"
  /\ reservations' = Drop(reservations, op[p].docs)
  /\ pc' = [pc EXCEPT ![p] = "idle"]
  /\ last' = Completed(p, "count", "committed", <<>>, Cardinality(op[p].docs))
  /\ op' = MarkStale(p, {DocReservation(id) : id \in op[p].docs})
  /\ UNCHANGED <<daily_slots, slots, nextId, calls,
                 read_after_write_rejected>>

\* ids a caller can name: those handed out so far and one never handed out
KnownIds == 1..Min(nextId, MaxRes)

Next ==
  \E p \in Procs :
    \/ \E date \in Dates, time \in CreateTimes, pax \in PaxValues :
         create_reservation(p, date, time, pax)
    \/ \E id \in KnownIds : delete_reservation(p, id)
    \/ \E id \in KnownIds, date \in Dates, time \in Times, is_admin \in BOOLEAN :
         modify_reservation(p, id, date, time, is_admin)
    \/ TxnRaise(p)
    \/ TxnReturn(p)
    \/ TxnCommit(p)
    \/ TxnAbort(p)
    \/ TxnRetry(p)
    \/ TxnExhausted(p)
    \/ StorageFault(p)
    \/ PurgeQuery(p)
    \/ PurgeCommit(p)

Spec == Init /\ [][Next]_vars

\* what a caller that has started a call does next on its own: each run of
\* a transaction body is a short read-compute-write cycle and the call
\* holds no lock, so a started call keeps running until it returns
Proceed(p) ==
  \/ TxnRaise(p)
  \/ TxnReturn(p)
  \/ TxnCommit(p)
  \/ TxnAbort(p)
  \/ TxnRetry(p)
  \/ TxnExhausted(p)

\* the three transactional operations, parties of 2 booked on date 1 and
\* moved by the admin route, with callers that keep running
NextLive ==
  \E p \in Procs :
    \/ create_reservation(p, 1, "12:00", 2)
    \/ \E id \in KnownIds : delete_reservation(p, id)
    \/ \E id \in KnownIds, date \in Dates :
         modify_reservation(p, id, date, "12:00", TRUE)
    \/ TxnRaise(p)
    \/ TxnReturn(p)
    \/ TxnCommit(p)
    \/ TxnAbort(p)
    \/ TxnRetry(p)
    \/ TxnExhausted(p)
    \/ StorageFault(p)

SpecLive ==
  Init /\ [][NextLive]_vars /\ \A p \in Procs : WF_vars(Proceed(p))

\* bookings only, for every party size a caller can pass
NextBooking ==
  \E p \in Procs :
    \/ \E date \in Dates, time \in CreateTimes, pax \in AnyPax :
         create_reservation(p, date, time, pax)
    \/ TxnRaise(p)
    \/ TxnCommit(p)
    \/ TxnAbort(p)
    \/ TxnRetry(p)
    \/ TxnExhausted(p)
    \/ StorageFault(p)

SpecBooking == Init /\ [][NextBooking]_vars

\* get_daily_occupied_tables: the date's occupancy, {} when the read fails
get_daily_occupied_tables(date, read_ok) ==
  IF read_ok THEN ReadOccupancy(date) ELSE <<>>

\* SingleTableFits with ">" for ">=": a table the party would fill does
\* not count
SingleTableFitsStrict(occupancy, pax) ==
  \E i \in 1..NumTables :
    TABLE_CONFIG[i].capacity - BookedPax(occupancy, TABLE_CONFIG[i].id) > pax

\* the loop of check_availability: some table has remaining >= pax
SingleTableFits(occupancy, pax) ==
  \E i \in 1..NumTables :
    TABLE_CONFIG[i].capacity - BookedPax(occupancy, TABLE_CONFIG[i].id) >= pax

\* check_availability: reads the date's occupancy outside any transaction
\* and answers; nothing is written
check_availability(p, date, time, pax, read_ok) ==
  /\ pc[p] = "idle"
  /\ calls < MaxCalls
  /\ calls' = calls + 1
  /\ last' = [kind |-> "check", res_id |-> 0, date |-> date, time |-> time,
              pax |-> pax, attempt |-> 1,
              result |-> IF SingleTableFits(
                              get_daily_occupied_tables(date, read_ok), pax)
                         THEN "true" ELSE "false",
              how |-> IF read_ok THEN "returned" ELSE "fault",
              assigned |-> <<>>, count |-> 0, before |-> <<>>]
  /\ UNCHANGED <<reservations, daily_slots, slots, nextId, pc, op,
                 read_after_write_rejected>>

\* An occupancy document of one date as earlier bookings left it: the
\* 1-seat tables of a floor all booked a1 (2F) or e1 (3F), 3F-H1 and 3F-I1
\* both booked h1, the other tables booked as given.  Tables with nothing
\* booked have no entry.
SeedBooked(a1, e1, b1, f1, c1, d1, g1, h1) ==
  [t \in TableIds |->
     CASE t \in {"2F-A1", "2F-A2", "2F-A3", "2F-A4"} -> a1
       [] t \in {"3F-E1", "3F-E2", "3F-E3", "3F-E4"} -> e1
       [] t = "2F-B1" -> b1
       [] t = "3F-F1" -> f1
       [] t = "2F-C1" -> c1
       [] t = "2F-D1" -> d1
       [] t = "3F-G1" -> g1
       [] OTHER -> h1]

SeedOccupancy(booked) ==
  [t \in {u \in TableIds : booked[u] > 0} |->
     [booked_pax |-> booked[t],
      bookings |-> <<[res_id |-> 0, pax |-> booked[t], time |-> "12:00"]>>]]

SeedOccupancies ==
  {SeedOccupancy(SeedBooked(a1, e1, b1, f1, c1, d1, g1, h1)) :
     a1 \in {0, 1}, e1 \in {0, 1}, b1 \in {0, 2, 6}, f1 \in {0, 2, 6},
     c1 \in {0, 1, 4}, d1 \in {0, 1, 4}, g1 \in {0, 1, 4}, h1 \in {0, 4}}

AllocPax == {1, 2, 4, 6, 7}     \* party sizes of SpecAllocation

\* the allocation on its own: date 1 holds any of the seeded occupancies
\* and one booking or one availability check is made against it
InitAllocation ==
  /\ reservations = <<>>
  /\ daily_slots \in {Put(<<>>, 1, occupancy) : occupancy \in SeedOccupancies}
  /\ slots = <<>>
  /\ nextId = 1
  /\ pc = [p \in Procs |-> "idle"]
  /\ op = [p \in Procs |-> Idle]
  /\ last = NoLast
  /\ calls = 0
  /\ read_after_write_rejected = TRUE

NextAllocation ==
  \E p \in Procs :
    \/ \E pax \in AllocPax :
         calls = 0 /\ create_reservation(p, 1, "12:00", pax)
    \/ \E pax \in AllocPax, read_ok \in BOOLEAN :
         calls = 0 /\ check_availability(p, 1, "12:00", pax, read_ok)
    \/ TxnRaise(p)
    \/ TxnCommit(p)

SpecAllocation == InitAllocation /\ [][NextAllocation]_vars

\* ------------------------------------------------------------- queries
\* the order of the "HH:MM" strings
TimeOrd(time) == IF time = "12:00" THEN 1 ELSE 2

\* the sort key (x.get('date', ''), x.get('time', '')): tuples compare
\* field by field
KeyLess(a, b) ==
  \/ a.date < b.date
  \/ a.date = b.date /\ TimeOrd(a.time) < TimeOrd(b.time)

\* reservations.sort(key=...) left out: the list stays in stream order
Unsorted(list) == list

\* reservations.sort(key=...): stable, ascending
SortByDateTime(list) ==
  LET rank(i) == Cardinality({j \in 1..Len(list) :
                    \/ KeyLess(list[j], list[i])
                    \/ ~KeyLess(list[i], list[j]) /\ j < i}) + 1
  IN [k \in 1..Len(list) |->
        list[CHOOSE i \in 1..Len(list) : rank(i) = k]]

\* query.stream() over the documents with ids from id on, in the order of
\* the document ids, with the "if not include_past" filter of the loop;
\* data['id'] = doc.id
RECURSIVE StreamFrom(_, _, _)
StreamFrom(id, user_id, include_past) ==
  IF id > MaxRes THEN <<>>
  ELSE IF /\ id \in DOMAIN reservations
          /\ reservations[id].user_id = user_id
          /\ include_past \/ ~(reservations[id].date < Today)
       THEN <<[id |-> id, user_id |-> reservations[id].user_id,
               date |-> reservations[id].date,
               time |-> reservations[id].time]>>
            \o StreamFrom(id + 1, user_id, include_past)
       ELSE StreamFrom(id + 1, user_id, include_past)

\* get_user_reservations: reads the ledger outside any transaction and
\* answers the sorted list, [] when the read fails; nothing is written
get_user_reservations(p, user_id, include_past, read_ok) ==
  /\ pc[p] = "idle"
  /\ calls < MaxCalls
  /\ calls' = calls + 1
  /\ last' = [kind |-> "user_reservations", res_id |-> 0, date |-> 0,
              time |-> "", pax |-> 0, attempt |-> 1, result |-> "list",
              how |-> IF read_ok THEN "returned" ELSE "fault",
              assigned |-> IF read_ok
                           THEN SortByDateTime(
                                  StreamFrom(1, user_id, include_past))
                           ELSE <<>>,
              count |-> 0, before |-> <<>>,
              user_id |-> user_id, include_past |-> include_past]
  /\ UNCHANGED <<reservations, daily_slots, slots, nextId, pc, op,
                 read_after_write_rejected>>

\* The ledger and the occupancy after the bookings of requests were made
\* one after the other, each for a party of 2
RECURSIVE BookAll(_, _, _)
BookAll(requests, ledger, daily) ==
  IF requests = <<>> THEN [reservations |-> ledger, daily_slots |-> daily]
  ELSE
    LET o == [res_id |-> Len(ledger) + 1, user_id |-> requests[1].user_id,
              date |-> requests[1].date, time |-> requests[1].time, pax |-> 2]
        occupancy == IF o.date \in DOMAIN daily THEN daily[o.date] ELSE <<>>
        assigned_tables == Allocate(occupancy, o.pax).assigned_tables
    IN BookAll(Tail(requests),
               Append(ledger, ReservationData(o, assigned_tables)),
               Put(daily, o.date,
                   UpdateOccupancy(occupancy, assigned_tables,
                                   o.res_id, o.time)))

Requests == [user_id : Procs, date : Dates, time : Times]
RequestLists ==
  UNION {[1..n -> Requests] : n \in 0..MaxRes}

\* the queries on their own: the ledger holds the bookings of any list of
\* requests and the callers list their reservations
InitQuery ==
  /\ \E requests \in RequestLists :
       /\ reservations = BookAll(requests, <<>>, <<>>).reservations
       /\ daily_slots = BookAll(requests, <<>>, <<>>).daily_slots
       /\ nextId = Len(requests) + 1
  /\ slots = <<>>
  /\ pc = [p \in Procs |-> "idle"]
  /\ op = [p \in Procs |-> Idle]
  /\ last = NoLast
  /\ calls = 0
  /\ read_after_write_rejected = TRUE

NextQuery ==
  \E p \in Procs :
    \E include_past \in BOOLEAN, read_ok \in BOOLEAN :
      get_user_reservations(p, UserOf(p), include_past, read_ok)

SpecQuery == InitQuery /\ [][NextQuery]_vars

\* ------------------------------------------------------- repair tools
\* the record of a completed run of a tool
ToolRun(kind, result, how) ==
  [kind |-> kind, res_id |-> 0, date |-> 0, time |-> "", pax |-> 0,
   attempt |-> 1, result |-> result, how |-> how, assigned |-> <<>>,
   count |-> 0, before |-> <<>>]

OccupancyOf(daily_occupancy, date) ==
  IF date \in DOMAIN daily_occupancy THEN daily_occupancy[date] ELSE <<>>

\* sync_reservations_to_slots, the loop over res_docs from document id on:
\* a reservation with a table is booked whole on that table, one without is
\* spread over the tables in descending capacity and gets the first as its
\* table_id
RECURSIVE SyncFrom(_, _, _)
SyncFrom(id, ledger, daily_occupancy) ==
  IF id > MaxRes
  THEN [reservations |-> ledger, daily_occupancy |-> daily_occupancy]
  ELSE IF id \notin DOMAIN ledger \/ ledger[id].status # "confirmed"
  THEN SyncFrom(id + 1, ledger, daily_occupancy)
  ELSE
    LET data == ledger[id]
        occupancy == OccupancyOf(daily_occupancy, data.date)
        assigned_tables ==
          IF data.table_id \in TableIds
          THEN <<[table_id |-> data.table_id, take |-> data.pax]>>
          ELSE MultiTableFrom(occupancy, 1, data.pax, <<>>).assigned_tables
    IN SyncFrom(id + 1,
         IF data.table_id \notin TableIds /\ assigned_tables # <<>>
         THEN [ledger EXCEPT ![id].table_id = assigned_tables[1].table_id]
         ELSE ledger,
         Put(daily_occupancy, data.date,
             UpdateOccupancy(occupancy, assigned_tables, id, data.time)))

\* set(..., merge=True) of every rebuilt date: dates that were not rebuilt
\* keep their document
SavedMerged(daily_occupancy) ==
  [d \in DOMAIN daily_slots \cup DOMAIN daily_occupancy |->
     IF d \in DOMAIN daily_occupancy
     THEN MergeOccupancy(ReadOccupancy(d), daily_occupancy[d])
     ELSE daily_slots[d]]

\* sync_reservations_to_slots (repair_slots.py), run by an administrator
sync_reservations_to_slots(p) ==
  /\ pc[p] = "idle"
  /\ calls < MaxCalls
  /\ calls' = calls + 1
  /\ reservations' = SyncFrom(1, reservations, <<>>).reservations
  /\ daily_slots' = SavedMerged(SyncFrom(1, reservations, <<>>).daily_occupancy)
  /\ last' = ToolRun("sync", "done", "committed")
  /\ op' = MarkStale(p,
             {DocDaily(d) : d \in DOMAIN daily_slots'}
               \cup {DocReservation(id) : id \in DOMAIN reservations})
  /\ UNCHANGED <<slots, nextId, pc, read_after_write_rejected>>

\* reset_and_repair_properly, the loop "for f in floors" over the tables of
\* floor f in descending capacity, from index k
RECURSIVE FloorFrom(_, _, _, _, _)
FloorFrom(occupancy, f, k, f_temp_pax, temp_assigned) ==
  IF k > NumTables \/ f_temp_pax <= 0
  THEN [temp_assigned |-> temp_assigned, f_temp_pax |-> f_temp_pax]
  ELSE
    LET tid == multi_table_configs[k].id
        available == multi_table_configs[k].capacity - BookedPax(occupancy, tid)
        take == Min(f_temp_pax, available)
    IN IF multi_table_configs[k].floor = f /\ available > 0
       THEN FloorFrom(occupancy, f, k + 1, f_temp_pax - take,
              Append(temp_assigned, [table_id |-> tid, take |-> take]))
       ELSE FloorFrom(occupancy, f, k + 1, f_temp_pax, temp_assigned)

floors == <<2, 3>>

\* the first floor that takes the whole party, 0 when none does
FloorAssigned(occupancy, pax) ==
  IF FloorFrom(occupancy, floors[1], 1, pax, <<>>).f_temp_pax <= 0
  THEN floors[1]
  ELSE IF FloorFrom(occupancy, floors[2], 1, pax, <<>>).f_temp_pax <= 0
       THEN floors[2] ELSE 0

\* reset_and_repair_properly, the loop over res_docs from document id on;
\* the fallback for a party no floor takes uses the undefined name
\* sorted_tables and raises NameError
RECURSIVE ResetFrom(_, _, _)
ResetFrom(id, ledger, daily_occupancy) ==
  IF id > MaxRes
  THEN [raised |-> FALSE, reservations |-> ledger,
        daily_occupancy |-> daily_occupancy]
  ELSE IF id \notin DOMAIN ledger \/ ledger[id].status # "confirmed"
  THEN ResetFrom(id + 1, ledger, daily_occupancy)
  ELSE
    LET data == ledger[id]
        occupancy == OccupancyOf(daily_occupancy, data.date)
        f == FloorAssigned(occupancy, data.pax)
        temp_assigned == FloorFrom(occupancy, f, 1, data.pax, <<>>).temp_assigned
    IN IF f = 0
       THEN [raised |-> TRUE, reservations |-> ledger,
             daily_occupancy |-> daily_occupancy]
       ELSE ResetFrom(id + 1,
              IF temp_assigned # <<>>
              THEN [ledger EXCEPT ![id].table_id = temp_assigned[1].table_id]
              ELSE ledger,
              Put(daily_occupancy, data.date,
                  UpdateOccupancy(occupancy, temp_assigned, id, data.time)))

\* reset_and_repair_properly (reset_and_repair.py), run by an
\* administrator: the daily_slots documents are deleted first and the
\* rebuilt ones are saved last, unless the loop raised
reset_and_repair_properly(p) ==
  /\ pc[p] = "idle"
  /\ calls < MaxCalls
  /\ calls' = calls + 1
  /\ reservations' = ResetFrom(1, reservations, <<>>).reservations
  /\ daily_slots' = IF ResetFrom(1, reservations, <<>>).raised THEN <<>>
                    ELSE ResetFrom(1, reservations, <<>>).daily_occupancy
  /\ last' = IF ResetFrom(1, reservations, <<>>).raised
             THEN ToolRun("reset", "NameError", "raised")
             ELSE ToolRun("reset", "done", "committed")
  /\ op' = MarkStale(p,
             {DocDaily(d) : d \in DOMAIN daily_slots \cup DOMAIN daily_slots'}
               \cup {DocReservation(id) : id \in DOMAIN reservations})
  /\ UNCHANGED <<slots, nextId, pc, read_after_write_rejected>>

\* bookings, cancellations and purges with the two repair tools
NextRepair ==
  \E p \in Procs :
    \/ \E date \in Dates, pax \in PaxValues :
         create_reservation(p, date, "12:00", pax)
    \/ \E id \in KnownIds : delete_reservation(p, id)
    \/ TxnRaise(p)
    \/ TxnReturn(p)
    \/ TxnCommit(p)
    \/ TxnAbort(p)
    \/ TxnRetry(p)
    \/ TxnExhausted(p)
    \/ StorageFault(p)
    \/ PurgeQuery(p)
    \/ PurgeCommit(p)
    \/ sync_reservations_to_slots(p)
    \/ reset_and_repair_properly(p)

SpecRepair == Init /\ [][NextRepair]_vars

\* --------------------------------------------------------- the agents
\* ReservationQueryAgent.process, the "Book|..." command: the answer to the
\* user for what check_availability said and what create_reservation
\* returned; book_table answers "Reservation confirmed! ID: ..." the same
\* way
BookReply(is_available, reservation_id) ==
  IF is_available
  THEN [msg |-> "book_success", reservation_id |-> reservation_id]
  ELSE [msg |-> "book_unavailable", reservation_id |-> ""]

\* ConversationAgent.process: "ID:" in result
NotifiesAdmin(reply) == reply.msg = "book_success"

\* the "Book|..." command up to the answer of check_availability: the
\* user is told the slot is unavailable, or create_reservation is next
process_book(p, date, time, pax, read_ok) ==
  /\ pc[p] = "idle"
  /\ calls < MaxCalls
  /\ calls' = calls + 1
  /\ IF SingleTableFits(get_daily_occupied_tables(date, read_ok), pax)
     THEN /\ pc' = [pc EXCEPT ![p] = "checked"]
          /\ op' = [op EXCEPT ![p] =
                      NewOp("book", 0, UserOf(p), date, time, pax, FALSE)]
          /\ last' = [ToolRun("check", "true",
                              IF read_ok THEN "returned" ELSE "fault")
                        EXCEPT !.date = date, !.time = time, !.pax = pax]
     ELSE /\ last' = [ToolRun("book", BookReply(FALSE, "").msg, "returned")
                        EXCEPT !.date = date, !.time = time, !.pax = pax]
          /\ UNCHANGED <<pc, op>>
  /\ UNCHANGED <<reservations, daily_slots, slots, nextId,
                 read_after_write_rejected>>

\* the "Book|..." command goes on to create_reservation
process_book_create(p) ==
  /\ pc[p] = "checked"
  /\ nextId <= MaxRes
  /\ op' = [op EXCEPT ![p] =
              Snapshot(NewOp("create", nextId, op[p].user_id, op[p].date,
                             op[p].time, op[p].pax, FALSE))]
  /\ nextId' = nextId + 1
  /\ pc' = [pc EXCEPT ![p] = "read"]
  /\ UNCHANGED <<reservations, daily_slots, slots, last, calls,
                 read_after_write_rejected>>

\* bookings made through the agents: the command of ReservationQueryAgent
\* and book_table, which calls create_reservation at once
NextAgent ==
  \E p \in Procs :
    \/ \E date \in Dates, pax \in PaxValues, read_ok \in BOOLEAN :
         process_book(p, date, "12:00", pax, read_ok)
    \/ process_book_create(p)
    \/ \E date \in Dates, pax \in PaxValues :
         create_reservation(p, date, "12:00", pax)
    \/ TxnRaise(p)
    \/ TxnCommit(p)
    \/ TxnAbort(p)
    \/ TxnRetry(p)
    \/ TxnExhausted(p)
    \/ StorageFault(p)

SpecAgent == Init /\ [][NextAgent]_vars

\* ------------------------------------------------------- the seating map
\* "for _ in range(pax): seat_map.append(res_id)": range of a number below
\* 1 is empty
SeatsOf(b) == [i \in 1..b.pax |-> b.res_id]

\* the loop over data.get("bookings", []) from index k on
RECURSIVE SeatMapFrom(_, _, _)
SeatMapFrom(bookings, k, seat_map) ==
  IF k > Len(bookings) THEN seat_map
  ELSE SeatMapFrom(bookings, k + 1, seat_map \o SeatsOf(bookings[k]))

\* the loop over occupied_tables.items(), from catalog index k on: every
\* table of the date's document gets its seat_map
RECURSIVE SeatMapsFrom(_, _)
SeatMapsFrom(occupied_tables, k) ==
  IF k > NumTables THEN <<>>
  ELSE IF TABLE_CONFIG[k].id \in DOMAIN occupied_tables
       THEN <<[table_id |-> TABLE_CONFIG[k].id,
               booked_pax |-> occupied_tables[TABLE_CONFIG[k].id].booked_pax,
               bookings |-> occupied_tables[TABLE_CONFIG[k].id].bookings,
               seat_map |-> SeatMapFrom(
                              occupied_tables[TABLE_CONFIG[k].id].bookings,
                              1, <<>>)]>>
            \o SeatMapsFrom(occupied_tables, k + 1)
       ELSE SeatMapsFrom(occupied_tables, k + 1)

\* GET /seating-map (app.py): the page of a date is rendered from its
\* occupancy
seating_map(p, date, read_ok) ==
  /\ pc[p] = "idle"
  /\ calls < MaxCalls
  /\ calls' = calls + 1
  /\ last' = [ToolRun("seating_map", "rendered",
                      IF read_ok THEN "returned" ELSE "fault")
                EXCEPT !.date = date,
                       !.assigned =
                         SeatMapsFrom(get_daily_occupied_tables(date, read_ok), 1)]
  /\ UNCHANGED <<reservations, daily_slots, slots, nextId, pc, op,
                 read_after_write_rejected>>

\* bookings of every party size a caller can pass, and the seating map
NextSeating ==
  \E p \in Procs :
    \/ \E date \in Dates, pax \in AnyPax :
         create_reservation(p, date, "12:00", pax)
    \/ \E date \in Dates, read_ok \in BOOLEAN : seating_map(p, date, read_ok)
    \/ TxnRaise(p)
    \/ TxnCommit(p)
    \/ TxnAbort(p)
    \/ TxnRetry(p)
    \/ TxnExhausted(p)
    \/ StorageFault(p)

SpecSeating == Init /\ [][NextSeating]_vars

\* ------------------------------------------------------------ properties
RECURSIVE SumOver(_, _)
SumOver(S, f) ==
  IF S = {} THEN 0
  ELSE LET x == CHOOSE y \in S : TRUE
       IN f[x] + SumOver(S \ {x}, f)

\* seats left on all tables of an occupancy
TotalRemaining(occupancy) ==
  SumOver(TableIds,
          [t \in TableIds |-> CapacityOf(t) - BookedPax(occupancy, t)])

TotalCapacity == SumOver(TableIds, [t \in TableIds |-> CapacityOf(t)])

\* the reservation ids that appear in the bookings lists of an occupancy
IdsIn(occupancy) ==
  UNION {{occupancy[t].bookings[i].res_id :
            i \in 1..Len(occupancy[t].bookings)} : t \in DOMAIN occupancy}

RECURSIVE PaxOf(_, _)
PaxOf(bookings, id) ==
  IF bookings = <<>> THEN 0
  ELSE (IF bookings[1].res_id = id THEN bookings[1].pax ELSE 0)
       + PaxOf(Tail(bookings), id)

\* seats booked for reservation id over all tables of an occupancy
BookedFor(occupancy, id) ==
  SumOver(DOMAIN occupancy,
          [t \in DOMAIN occupancy |-> PaxOf(occupancy[t].bookings, id)])

\* the tables whose bookings lists name reservation id
TablesOf(occupancy, id) ==
  {t \in DOMAIN occupancy : PaxOf(occupancy[t].bookings, id) # 0
     \/ \E i \in 1..Len(occupancy[t].bookings) :
          occupancy[t].bookings[i].res_id = id}

\* caller p completes its call in this step
Completes(p, kind) == pc[p] = "read" /\ pc'[p] = "idle" /\ op[p].kind = kind

\* C1: in every committed state, for every table of every date, booked_pax
\* equals the sum of pax over the table's bookings and lies between 0 and
\* the table's capacity.
C1_OccupancyInvariant ==
  \A d \in DOMAIN daily_slots : \A t \in DOMAIN daily_slots[d] :
    /\ daily_slots[d][t].booked_pax = SumPax(daily_slots[d][t].bookings)
    /\ 0 <= daily_slots[d][t].booked_pax
    /\ daily_slots[d][t].booked_pax <= CapacityOf(t)

\* no table of any date holds more pax than its capacity, and booked_pax is
\* the sum of the bookings
NoOversell ==
  \A d \in DOMAIN daily_slots : \A t \in DOMAIN daily_slots[d] :
    /\ daily_slots[d][t].booked_pax = SumPax(daily_slots[d][t].bookings)
    /\ daily_slots[d][t].booked_pax <= CapacityOf(t)

\* C2 as stated: among bookings of positive party sizes for one date that
\* together exceed the capacity, every request that does not succeed
\* returns "overbooked".
C2_RestReturnOverbooked ==
  ( /\ last.kind = "create"
    /\ last.how # "fault"
    /\ last.result # "success"
    /\ last.pax >= 1
    /\ \A t \in DOMAIN ReadOccupancy(last.date) :
         \A i \in 1..Len(ReadOccupancy(last.date)[t].bookings) :
           ReadOccupancy(last.date)[t].bookings[i].pax >= 1
    /\ last.pax + (TotalCapacity - TotalRemaining(ReadOccupancy(last.date)))
         > TotalCapacity )
  => last.result = "overbooked"

\* C2 amended: concurrent bookings never oversell; a booking succeeds only
\* if the remaining capacity it read covers its party size, is answered
\* "overbooked" only if the remaining capacity it read was less than its
\* party size, and otherwise fails with None, and then only because
\* conflicts exhausted its attempts or the store failed; a failed booking
\* changes nothing.
C2_NoOversell ==
  [][ /\ NoOversell'
      /\ \A p \in Procs : Completes(p, "create") =>
           /\ last'.result \in {"success", "overbooked", "none"}
           /\ last'.result = "success" =>
                /\ TotalRemaining(op[p].occupancy) >= op[p].pax
                /\ \A d \in Dates : d = op[p].date =>
                     BookedFor(ReadOccupancy(d)', op[p].res_id) = op[p].pax
           /\ last'.result = "overbooked" =>
                /\ TotalRemaining(op[p].occupancy) < op[p].pax
                /\ UNCHANGED db
           /\ last'.result = "none" =>
                /\ last'.how \in {"contention", "fault"}
                /\ UNCHANGED db ]_vars

\* a booking was answered "overbooked" on a re-run: when it first read the
\* date it was aborted by a concurrent booking
C2_Witness ==
  last.kind = "create" /\ last.result = "overbooked" /\ last.attempt >= 2

\* the ledger and the occupancy of every date name the same reservations
\* with the same party sizes
LockStep ==
  \A d \in Dates :
    LET confirmed == {id \in DOMAIN reservations :
                        /\ reservations[id].status = "confirmed"
                        /\ reservations[id].date = d}
    IN /\ IdsIn(ReadOccupancy(d)) = confirmed
       /\ \A id \in confirmed :
            BookedFor(ReadOccupancy(d), id) = reservations[id].pax

\* C3: every create_reservation, modify_reservation and delete_reservation
\* that completes leaves the ledger and DailyOccupancy in lock-step if they
\* were in lock-step before.
C3_LockStep ==
  [][ (LockStep /\ \E p \in Procs :
                     \/ Completes(p, "create")
                     \/ Completes(p, "modify")
                     \/ Completes(p, "delete"))
      => LockStep' ]_vars

\* C4: while a booking is in progress and when it ends, either its
\* Reservation record and its bookings in the date's DailyOccupancy are
\* both visible (and it ends with success), or neither is.
C4_NoPartialCommit ==
  [][ \A p \in Procs :
        (pc[p] \in {"read", "retry"} /\ op[p].kind = "create") =>
          \/ /\ pc'[p] = "idle"
             /\ last'.result = "success"
             /\ op[p].res_id \in DOMAIN reservations'
             /\ op[p].date \in DOMAIN daily_slots'
             /\ \A d \in Dates : d = op[p].date =>
                  /\ op[p].res_id \in IdsIn(ReadOccupancy(d)')
                  /\ BookedFor(ReadOccupancy(d)', op[p].res_id) = op[p].pax
          \/ /\ pc'[p] = "idle" => last'.result # "success"
             /\ op[p].res_id \notin DOMAIN reservations'
             /\ \A d \in Dates : op[p].res_id \notin IdsIn(ReadOccupancy(d)') ]_vars

\* a booking committed on its second run, after a conflict aborted the first
C4_Witness ==
  /\ last.kind = "create" /\ last.how = "committed" /\ last.attempt = 2
  /\ last.res_id \in DOMAIN reservations
  /\ last.res_id \in IdsIn(ReadOccupancy(last.date))

\* C5: after delete_reservation returns true the reservation is out of the
\* ledger and out of every bookings list of DailyOccupancy.
C5_CancelReleases ==
  (last.kind = "delete" /\ last.result = "true") =>
     /\ last.res_id \notin DOMAIN reservations
     /\ \A d \in Dates : last.res_id \notin IdsIn(ReadOccupancy(d))

\* C6: after a successful modify_reservation to another date/time the
\* record carries the new date and time, the new date's DailyOccupancy
\* holds the party on the record's table, and the old date's holds none of
\* it.
C6_MoveTransfersSeats ==
  (last.kind = "modify" /\ last.result = "success" /\ last.before # <<>>) =>
     /\ last.res_id \in DOMAIN reservations
     /\ reservations[last.res_id].date = last.date
     /\ reservations[last.res_id].time = last.time
     /\ BookedFor(ReadOccupancy(last.date), last.res_id)
          = reservations[last.res_id].pax
     /\ reservations[last.res_id].table_id
          \in TablesOf(ReadOccupancy(last.date), last.res_id)
     /\ last.before[1].date # last.date =>
          last.res_id \notin IdsIn(ReadOccupancy(last.before[1].date))

\* C7: a move from slot A to slot B followed, with no call completing in
\* between, by the move of the same reservation back to A leaves the
\* occupancy of A and of B as they were before the first move.
C7_RoundTrip ==
  [][ \A p \in Procs :
        ( /\ Completes(p, "modify")
          /\ last'.how = "committed" /\ last'.before # <<>>
          /\ last.kind = "modify" /\ last.how = "committed"
          /\ last.before # <<>>
          /\ last.res_id = op[p].res_id
          /\ last.before[1].date = op[p].date
          /\ last.before[1].time = op[p].time )
        => \A d \in Dates, t \in Times :
             /\ (d = op[p].date /\ t = op[p].time) =>
                  OccupancyAt(d, t)' = last.before[1].occupancy
             /\ (d = last.date /\ t = last.time) =>
                  OccupancyAt(d, t)' = last.before[2].occupancy ]_vars

\* the ownership check fails on what the call read
Denied(o) ==
  o.snap_res.exists /\ ~o.is_admin /\ o.snap_res.data.user_id # o.user_id

\* C8: modify_reservation returns permission_denied exactly when the
\* reservation exists, is_admin is false and the user is not the owner, and
\* then changes no reservation and no occupancy record; with is_admin it
\* never denies.  (A call the store failed is answered "error".)
C8_PermissionDenied ==
  [][ \A p \in Procs :
        (Completes(p, "modify") /\ last'.how # "fault") =>
          /\ last'.result = "permission_denied" <=> Denied(op[p])
          /\ Denied(op[p]) => UNCHANGED db
          /\ op[p].is_admin => last'.result # "permission_denied" ]_vars

C8_Witness ==
  /\ last.kind = "modify" /\ last.result = "permission_denied"
  /\ last.res_id \in DOMAIN reservations

\* C9: for an id that the call does not find in the ledger modify_reservation returns
\* not_found and delete_reservation returns false, and nothing is changed.
\* (A call the store failed is answered "error" or false.)
C9_NotFound ==
  [][ \A p \in Procs :
        ( /\ Completes(p, "modify") \/ Completes(p, "delete")
          /\ ~op[p].snap_res.exists
          /\ last'.how # "fault" )
        => /\ last'.result = IF op[p].kind = "modify" THEN "not_found"
                             ELSE "false"
           /\ UNCHANGED db ]_vars

C9_Witness ==
  /\ last.kind = "modify" /\ last.result = "not_found"
  /\ last.res_id \notin DOMAIN reservations

\* C10: create_reservation returns "overbooked" exactly when the remaining
\* capacity of the date, over all tables, is less than the party size; it
\* is then not retried, no Reservation record is created and the date's
\* DailyOccupancy is neither changed nor created.  (A call the store failed
\* is answered None.)
C10_Overbooked ==
  [][ \A p \in Procs :
        (pc[p] = "read" /\ op[p].kind = "create") =>
          /\ TotalRemaining(op[p].occupancy) < op[p].pax => pc'[p] # "retry"
          /\ (pc'[p] = "idle" /\ last'.how # "fault") =>
               (last'.result = "overbooked"
                  <=> TotalRemaining(op[p].occupancy) < op[p].pax)
          /\ (pc'[p] = "idle" /\ last'.result = "overbooked") =>
               /\ UNCHANGED db
               /\ op[p].res_id \notin DOMAIN reservations'
               /\ op[p].attempt = last'.attempt
               /\ DOMAIN daily_slots' = DOMAIN daily_slots ]_vars

\* a booking was answered "overbooked" for a date that has bookings
C10_Witness ==
  /\ last.kind = "create" /\ last.result = "overbooked"
  /\ last.date \in DOMAIN daily_slots
  /\ last.res_id \notin DOMAIN reservations

\* C11: a move to another date/time is refused ("unavailable", no table
\* chosen) exactly when the allocation of create_reservation cannot fit the
\* party in the target date's DailyOccupancy, and the table it chooses
\* otherwise has at least the party's size left in that occupancy.
C11_MoveAllocatesAsBooking ==
  [][ \A p \in Procs :
        ( /\ pc[p] = "idle" /\ pc'[p] = "read"
          /\ op'[p].kind = "modify"
          /\ Moves(op'[p], op'[p].snap_res) )
        => /\ op'[p].new_table_id = NoTable
                <=> Allocate(ReadOccupancy(op'[p].date),
                             op'[p].snap_res.data.pax).overbooked
           /\ op'[p].new_table_id # NoTable =>
                CapacityOf(op'[p].new_table_id)
                  - BookedPax(ReadOccupancy(op'[p].date), op'[p].new_table_id)
                  >= op'[p].snap_res.data.pax ]_vars

\* C12: check_availability, when it has read the date's occupancy, answers
\* true exactly when the allocation of create_reservation finds an
\* assignment (one table or several) in that same occupancy.
C12_CheckAgreesWithAllocation ==
  (last.kind = "check" /\ last.how = "returned") =>
     (last.result = "true"
        <=> ~Allocate(ReadOccupancy(last.date), last.pax).overbooked)

\* seats left on one table of an occupancy
RemainingOf(occupancy, t) == CapacityOf(t) - BookedPax(occupancy, t)

\* the tables that can hold the party on their own
FittingTables(occupancy, pax) ==
  {t \in TableIds : RemainingOf(occupancy, t) >= pax}

\* C13: whenever some table has remaining capacity >= party size, the
\* booking succeeds on one table, that table can hold the party and no
\* table that can hold it would be left with fewer free seats; a table
\* left with none is taken when there is one.
C13_SingleTableBestFit ==
  [][ \A p \in Procs :
        ( /\ Completes(p, "create")
          /\ op[p].pax >= 1
          /\ FittingTables(op[p].occupancy, op[p].pax) # {} )
        => /\ last'.result = "success"
           /\ Len(last'.assigned) = 1
           /\ last'.assigned[1].take = op[p].pax
           /\ last'.assigned[1].table_id
                \in FittingTables(op[p].occupancy, op[p].pax)
           /\ \A u \in FittingTables(op[p].occupancy, op[p].pax) :
                RemainingOf(op[p].occupancy, last'.assigned[1].table_id)
                  <= RemainingOf(op[p].occupancy, u) ]_vars

\* a party of 4 was put on the 6-seat table that had 2 booked, filling it,
\* while the other 6-seat table was empty
C13_Witness ==
  /\ last.kind = "create" /\ last.result = "success" /\ last.pax = 4
  /\ last.assigned = <<[table_id |-> "3F-F1", take |-> 4]>>
  /\ BookedPax(ReadOccupancy(1), "3F-F1") = 6
  /\ BookedPax(ReadOccupancy(1), "2F-B1") = 0

\* the largest capacity of the catalog
LargestCapacity ==
  CHOOSE c \in {CapacityOf(t) : t \in TableIds} :
    \A t \in TableIds : CapacityOf(t) <= c

\* C14: a booking that succeeds is put on exactly one table if and only if
\* some table, empty or shared, has remaining capacity >= party size, and
\* then that table's booked_pax grows by exactly the party size and no
\* other table changes; a party larger than the largest table is put on
\* two or more tables.
C14_OneTableWhenOneFits ==
  [][ \A p \in Procs :
        ( /\ Completes(p, "create")
          /\ op[p].pax >= 1
          /\ last'.result = "success" )
        => /\ Len(last'.assigned) >= 1
           /\ Len(last'.assigned) = 1
                <=> FittingTables(op[p].occupancy, op[p].pax) # {}
           /\ op[p].pax > LargestCapacity => Len(last'.assigned) >= 2
           /\ Len(last'.assigned) = 1 =>
                \A d \in Dates : d = op[p].date =>
                  \A t \in TableIds :
                    BookedPax(ReadOccupancy(d)', t)
                      = BookedPax(op[p].occupancy, t)
                        + (IF t = last'.assigned[1].table_id
                           THEN op[p].pax ELSE 0) ]_vars

\* a party of 1 was seated at the 6-seat table that had 2 booked, every
\* other table being full: booked_pax became 3
C14_Witness ==
  /\ last.kind = "create" /\ last.result = "success" /\ last.pax = 1
  /\ last.assigned = <<[table_id |-> "2F-B1", take |-> 1]>>
  /\ BookedPax(ReadOccupancy(1), "2F-B1") = 3
  /\ \A t \in TableIds \ {"2F-B1"} :
       BookedPax(ReadOccupancy(1), t) = CapacityOf(t)

FloorOf(t) == TABLE_CONFIG[TableIndex[t]].floor

\* seats left on the tables of one floor
FloorRemaining(occupancy, floor) ==
  SumOver({t \in TableIds : FloorOf(t) = floor},
          [t \in TableIds |-> RemainingOf(occupancy, t)])

\* the floors that can seat the whole party
FloorsThatFit(occupancy, pax) ==
  {f \in {FloorOf(t) : t \in TableIds} : FloorRemaining(occupancy, f) >= pax}

\* C15: when no single table can hold the party but some floor alone can,
\* the booking succeeds and all its tables are on one floor, the lowest
\* floor (2 before 3) among those that can seat the whole party.
C15_SameFloorFirst ==
  [][ \A p \in Procs :
        ( /\ Completes(p, "create")
          /\ op[p].pax >= 1
          /\ FittingTables(op[p].occupancy, op[p].pax) = {}
          /\ FloorsThatFit(op[p].occupancy, op[p].pax) # {} )
        => /\ last'.result = "success"
           /\ \A i \in 1..Len(last'.assigned) :
                /\ FloorOf(last'.assigned[i].table_id)
                     \in FloorsThatFit(op[p].occupancy, op[p].pax)
                /\ \A f \in FloorsThatFit(op[p].occupancy, op[p].pax) :
                     FloorOf(last'.assigned[i].table_id) <= f ]_vars

\* the place of a table in the catalog sorted by capacity, largest first,
\* tables of equal capacity in catalog order
DescendingPlace(t) == RankDesc(TableIndex[t])

RECURSIVE SumTake(_)
SumTake(assigned_tables) ==
  IF assigned_tables = <<>> THEN 0
  ELSE assigned_tables[1].take + SumTake(Tail(assigned_tables))

\* assigned_tables is the greedy consumption of occupancy, largest tables
\* first: tables in descending order, every table but the last one emptied,
\* no table with free seats passed over
GreedyDescending(occupancy, assigned_tables) ==
  /\ \A i \in 1..Len(assigned_tables) :
       /\ assigned_tables[i].take > 0
       /\ assigned_tables[i].take
            <= RemainingOf(occupancy, assigned_tables[i].table_id)
       /\ i < Len(assigned_tables) =>
            /\ assigned_tables[i].take
                 = RemainingOf(occupancy, assigned_tables[i].table_id)
            /\ DescendingPlace(assigned_tables[i].table_id)
                 < DescendingPlace(assigned_tables[i + 1].table_id)
  /\ \A u \in TableIds :
       ( /\ RemainingOf(occupancy, u) > 0
         /\ DescendingPlace(u)
              < DescendingPlace(assigned_tables[Len(assigned_tables)].table_id) )
       => \E i \in 1..Len(assigned_tables) : assigned_tables[i].table_id = u

\* C16: when no single table and no single floor can hold the party but
\* the seats left on all tables together can, the booking succeeds with
\* two or more tables taken greedily in descending capacity order over the
\* whole catalog; every seats_taken is > 0 and at most what the table had
\* left, and the seats_taken add up to the party size.
C16_CrossFloorGreedy ==
  [][ \A p \in Procs :
        ( /\ Completes(p, "create")
          /\ op[p].pax >= 1
          /\ FittingTables(op[p].occupancy, op[p].pax) = {}
          /\ FloorsThatFit(op[p].occupancy, op[p].pax) = {}
          /\ TotalRemaining(op[p].occupancy) >= op[p].pax )
        => /\ last'.result = "success"
           /\ Len(last'.assigned) >= 2
           /\ SumTake(last'.assigned) = op[p].pax
           /\ GreedyDescending(op[p].occupancy, last'.assigned) ]_vars

\* 6 pax, the only free seats being 3 at 2F-C1 and 3 at 3F-G1: 3 + 3
C16_Witness ==
  /\ last.kind = "create" /\ last.result = "success" /\ last.pax = 6
  /\ last.assigned = <<[table_id |-> "2F-C1", take |-> 3],
                       [table_id |-> "3F-G1", take |-> 3]>>
  /\ \A t \in TableIds : BookedPax(ReadOccupancy(1), t) = CapacityOf(t)

ErrorOutcome(kind) ==
  CASE kind = "create" -> "none"
    [] kind = "modify" -> "error"
    [] kind = "delete" -> "false"

\* C18: every call that has started returns; a transaction is run at most
\* MaxAttempts times; a call whose attempts are used up by conflicts is
\* answered with the error outcome of its operation, which is neither the
\* success nor the unavailable answer, and has changed nothing.
C18_ReturnsOrContention ==
  /\ \A p \in Procs : (pc[p] # "idle") ~> (pc[p] = "idle")
  /\ [](\A p \in Procs : pc[p] # "idle" => op[p].attempt <= MaxAttempts)
  /\ [][ \A p \in Procs :
           ( /\ pc[p] = "read" /\ pc'[p] = "idle"
             /\ last'.how = "contention" )
           => /\ op[p].attempt = MaxAttempts
              /\ op[p].stale
              /\ last'.result = ErrorOutcome(op[p].kind)
              /\ last'.result \notin {"success", "true", "overbooked",
                                      "unavailable"}
              /\ UNCHANGED db ]_vars

\* a booking gave up after its last attempt met a conflict
C18_Witness ==
  /\ last.kind = "create" /\ last.how = "contention"
  /\ last.result = "none" /\ last.attempt = MaxAttempts
  /\ last.res_id \notin DOMAIN reservations

\* C19: every create_reservation, modify_reservation and delete_reservation
\* that commits has read exactly what the store holds at the moment it
\* commits, so the store after the commit is what running the whole
\* operation at that moment on the state its predecessor left gives: the
\* committed operations take effect one at a time, in the order of their
\* commits.
C19_SerializedInCommitOrder ==
  [][ \A p \in Procs :
        ( /\ \/ Completes(p, "create")
             \/ Completes(p, "modify")
             \/ Completes(p, "delete")
          /\ last'.how = "committed" )
        => /\ Snapshot(op[p]) = op[p]
           /\ op[p].kind = "create" =>
                /\ op[p].occupancy = ReadOccupancy(op[p].date)
                /\ op[p].alloc = Allocate(ReadOccupancy(op[p].date), op[p].pax)
           /\ reservations' = Body(Snapshot(op[p])).reservations
           /\ daily_slots' = Body(Snapshot(op[p])).daily_slots
           /\ slots' = Body(Snapshot(op[p])).slots ]_vars

\* a booking committed on its second run, behind another booking of the
\* same date that had committed while it was in progress
C19_Witness ==
  /\ last.kind = "create" /\ last.how = "committed" /\ last.attempt = 2
  /\ Cardinality(IdsIn(ReadOccupancy(last.date))) >= 2
  /\ \E id \in IdsIn(ReadOccupancy(last.date)) : id > last.res_id

\* C20: two create_reservation transactions in progress for different
\* dates read and write disjoint documents, the commit of one never makes
\* the other stale, and a booking that needed a second run shares its date
\* with another committed booking: bookings of different dates never abort
\* each other.
C20_DatesIndependent ==
  /\ [][ \A p, q \in Procs :
           ( /\ p # q
             /\ pc[p] = "read" /\ op[p].kind = "create"
             /\ pc[q] = "read" /\ op[q].kind = "create"
             /\ op[p].date # op[q].date )
           => /\ op[p].reads \cap op[q].reads = {}
              /\ Body(op[p]).writes \cap op[q].reads = {}
              /\ Body(op[p]).writes \cap Body(op[q]).writes = {}
              /\ pc'[p] = "idle" => /\ pc'[q] = "read"
                                    /\ op'[q] = op[q] ]_vars
  /\ [](( /\ last.kind = "create"
          /\ last.attempt > 1 )
        => \E id \in DOMAIN reservations :
             /\ id # last.res_id
             /\ reservations[id].date = last.date)

\* a booking committed on its first run while an earlier call, for the
\* other date, was still in progress and stays unaffected
C20_Witness ==
  /\ last.kind = "create" /\ last.how = "committed" /\ last.attempt = 1
  /\ \E q \in Procs :
       /\ pc[q] = "read" /\ op[q].kind = "create"
       /\ op[q].date # last.date
       /\ op[q].res_id < last.res_id
       /\ op[q].attempt = 1
       /\ ~op[q].stale

\* reservation id is in no record: not in the ledger and in no bookings
\* list of any date
Gone(id) ==
  /\ id \notin DOMAIN reservations
  /\ \A d \in Dates : id \notin IdsIn(ReadOccupancy(d))

\* a booking of id is still in progress
Booking(id) ==
  \E q \in Procs : pc[q] # "idle" /\ op[q].kind = "create" /\ op[q].res_id = id

\* C21: every reservation in the ledger is confirmed, however often it was
\* modified; when delete_reservation returns true for an id the reservation
\* is out of the ledger and out of every occupancy, from then on it stays
\* out, and no modify_reservation or delete_reservation on that id succeeds
\* or changes anything.
C21_CancellationTerminal ==
  [][ /\ \A id \in DOMAIN reservations' :
           reservations'[id].status = "confirmed"
      /\ \A p \in Procs, id \in ResIds :
           ( /\ Completes(p, "delete")
             /\ op[p].res_id = id
             /\ last'.result = "true" )
           => Gone(id)'
      /\ \A id \in ResIds :
           (id < nextId /\ Gone(id) /\ ~Booking(id)) =>
             /\ Gone(id)'
             /\ \A p \in Procs :
                  ( /\ Completes(p, "modify") \/ Completes(p, "delete")
                    /\ op[p].res_id = id )
                  => /\ last'.result \notin {"success", "true"}
                     /\ UNCHANGED db ]_vars

\* C22: a modify_reservation that finds the reservation, passes the
\* ownership check and names the reservation's current date and time
\* returns success and sets only updated_at: the reservation's other
\* fields, every other reservation and every occupancy record are as they
\* were.  (A call the store failed, or whose attempts conflicts used up, is
\* answered "error" and changes nothing.)
C22_SameSlotOnlyTouches ==
  [][ \A p \in Procs :
        ( /\ Completes(p, "modify")
          /\ op[p].snap_res.exists
          /\ ~Denied(op[p])
          /\ op[p].snap_res.data.date = op[p].date
          /\ op[p].snap_res.data.time = op[p].time )
        => IF last'.how \in {"fault", "contention"}
           THEN last'.result = "error" /\ UNCHANGED db
           ELSE /\ last'.result = "success"
                /\ op[p].res_id \in DOMAIN reservations
                /\ reservations' =
                     [reservations EXCEPT ![op[p].res_id].updated_at = TRUE]
                /\ reservations'[op[p].res_id].updated_at
                /\ daily_slots' = daily_slots
                /\ slots' = slots ]_vars

\* a reservation was modified to the date and time it already had
C22_Witness ==
  /\ last.kind = "modify" /\ last.result = "success" /\ last.how = "committed"
  /\ last.before = <<>>
  /\ last.res_id \in DOMAIN reservations
  /\ reservations[last.res_id].date = last.date
  /\ reservations[last.res_id].time = last.time
  /\ reservations[last.res_id].updated_at
  /\ last.res_id \in IdsIn(ReadOccupancy(last.date))
  /\ slots = <<>>

\* the answers an operation gives when the store worked
NormalAnswers(kind) ==
  CASE kind = "check" -> {"true", "false"}
    [] kind = "create" -> {"success", "overbooked"}
    [] kind = "modify" -> {"success", "unavailable", "not_found",
                           "permission_denied"}
    [] kind = "delete" -> {"true", "false"}
    [] OTHER -> {}

\* C23: a call during which the store failed is answered with an error,
\* never with one of the answers the operation gives when the store
\* worked: check_availability does not say true or false, and
\* create_reservation, modify_reservation and delete_reservation do not
\* say success, unavailable (overbooked), not found or denied.
C23_FaultsPropagate ==
  last.kind # "none" /\ last.how = "fault"
    => last.result \notin NormalAnswers(last.kind)

\* C24: every reservation in the ledger and every bookings entry of every
\* date has party size >= 1, and a create_reservation called with a party
\* size below 1 is rejected as invalid: it does not succeed, creates no
\* reservation and changes no occupancy.
C24_PartySizeValidated ==
  [][ /\ \A id \in DOMAIN reservations' : reservations'[id].pax >= 1
      /\ \A d \in DOMAIN daily_slots' : \A t \in DOMAIN daily_slots'[d] :
           \A i \in 1..Len(daily_slots'[d][t].bookings) :
             daily_slots'[d][t].bookings[i].pax >= 1
      /\ \A p \in Procs :
           (Completes(p, "create") /\ op[p].pax < 1) =>
             /\ last'.result \notin {"success", "overbooked"}
             /\ UNCHANGED db ]_vars
\* the reservations dated before today
PastIds == {id \in DOMAIN reservations : reservations[id].date < Today}

\* C25: delete_past_reservations selects exactly the reservations dated
\* before today; when it completes, exactly the selected reservations are
\* gone from the ledger, the number it returns is their number, every
\* other reservation (those dated today or later when the ledger was
\* queried) is as it was, and no occupancy record has changed.
C25_PurgesPastOnly ==
  [][ \A p \in Procs :
        /\ (pc[p] = "idle" /\ pc'[p] = "purge") =>
             /\ op'[p].docs = PastIds
             /\ UNCHANGED db
        /\ (pc[p] = "purge" /\ pc'[p] = "idle") =>
             /\ last'.kind = "purge"
             /\ last'.count = Cardinality(op[p].docs)
             /\ DOMAIN reservations' = DOMAIN reservations \ op[p].docs
             /\ \A id \in DOMAIN reservations \ op[p].docs :
                  reservations'[id] = reservations[id]
             /\ daily_slots' = daily_slots
             /\ slots' = slots ]_vars

\* a purge removed a past reservation and left one dated today; the past
\* date's occupancy still lists the purged reservation
C25_Witness ==
  /\ last.kind = "purge" /\ last.count = 1
  /\ \E id \in DOMAIN reservations : reservations[id].date >= Today
  /\ PastIds = {}
  /\ \E d \in DOMAIN daily_slots :
       d < Today /\ IdsIn(daily_slots[d]) \ DOMAIN reservations # {}

\* C26: the list get_user_reservations answers holds only reservations of
\* the user, each once, in ascending order of date and then time; without
\* include_past they are exactly the user's reservations dated today or
\* later, with include_past all the user's reservations.
C26_UserReservationsSorted ==
  (last.kind = "user_reservations" /\ last.how = "returned") =>
     /\ \A i \in 1..Len(last.assigned) :
          /\ last.assigned[i].user_id = last.user_id
          /\ last.assigned[i].id \in DOMAIN reservations
          /\ reservations[last.assigned[i].id].user_id = last.user_id
     /\ \A i, j \in 1..Len(last.assigned) :
          i < j => /\ ~KeyLess(last.assigned[j], last.assigned[i])
                   /\ last.assigned[i].id # last.assigned[j].id
     /\ {last.assigned[i].id : i \in 1..Len(last.assigned)}
          = {id \in DOMAIN reservations :
               /\ reservations[id].user_id = last.user_id
               /\ last.include_past \/ reservations[id].date >= Today}

\* a user's list without include_past: a reservation booked later comes
\* first because its time is earlier, and the user's past reservation is
\* left out
C26_Witness ==
  /\ last.kind = "user_reservations" /\ last.how = "returned"
  /\ ~last.include_past
  /\ Len(last.assigned) = 2
  /\ last.assigned[1].id > last.assigned[2].id
  /\ last.assigned[1].date = last.assigned[2].date
  /\ \E id \in DOMAIN reservations :
       reservations[id].user_id = last.user_id /\ reservations[id].date < Today

\* C27: after reset_and_repair_properly or sync_reservations_to_slots has
\* completed, the stored occupancy of every date names only confirmed
\* reservations of that date (so no entry from before the run survives),
\* and the seats booked for every confirmed reservation on its date sum to
\* its party size.
C27_RepairRederives ==
  (last.kind \in {"sync", "reset"} /\ last.how = "committed") =>
     /\ \A d \in DOMAIN daily_slots :
          /\ \A id \in IdsIn(daily_slots[d]) :
               /\ id \in DOMAIN reservations
               /\ reservations[id].status = "confirmed"
               /\ reservations[id].date = d
          /\ \A t \in DOMAIN daily_slots[d] : daily_slots[d][t].bookings # <<>>
     /\ \A id \in DOMAIN reservations :
          BookedFor(ReadOccupancy(reservations[id].date), id)
            = reservations[id].pax

\* the entry of table t in the occupancy of a date, a table without an
\* entry counting as one with nothing booked
EntryOf(occupancy, t) ==
  IF t \in DOMAIN occupancy THEN occupancy[t]
  ELSE [booked_pax |-> 0, bookings |-> <<>>]

\* the seats assigned on table t
TakeOn(assigned, t) ==
  SumOver({i \in 1..Len(assigned) : assigned[i].table_id = t},
          [i \in 1..Len(assigned) |-> assigned[i].take])

\* C28: when a create_reservation commits, every table of its assignment
\* gets its seats added to booked_pax and one bookings entry of the new
\* reservation appended after the entries it had; every other table of the
\* date has the entry it had, and the occupancy of every other date is as
\* it was.
C28_CreateTouchesOwnTables ==
  [][ \A p \in Procs :
        (Completes(p, "create") /\ last'.how = "committed") =>
          \A d \in Dates : \A t \in TableIds :
            IF d = op[p].date /\ TakeOn(last'.assigned, t) # 0
            THEN /\ EntryOf(ReadOccupancy(d), t).booked_pax
                      + TakeOn(last'.assigned, t)
                      = EntryOf(ReadOccupancy(d)', t).booked_pax
                 /\ EntryOf(ReadOccupancy(d)', t).bookings
                      = Append(EntryOf(ReadOccupancy(d), t).bookings,
                               [res_id |-> op[p].res_id,
                                pax |-> TakeOn(last'.assigned, t),
                                time |-> op[p].time])
            ELSE /\ EntryOf(ReadOccupancy(d)', t) = EntryOf(ReadOccupancy(d), t)
                 /\ d # op[p].date =>
                      (d \in DOMAIN daily_slots') = (d \in DOMAIN daily_slots) ]_vars

\* a party of 2 joined the table another party of 2 had, while the other
\* date had bookings of its own
C28_Witness ==
  /\ last.kind = "create" /\ last.how = "committed"
  /\ Len(last.assigned) = 1
  /\ Len(EntryOf(ReadOccupancy(last.date), last.assigned[1].table_id).bookings) = 2
  /\ \E d \in DOMAIN daily_slots : d # last.date

\* the tables that can hold the party and would be left with the fewest
\* free seats
BestFits(occupancy, pax) ==
  {t \in FittingTables(occupancy, pax) :
     \A u \in FittingTables(occupancy, pax) :
       RemainingOf(occupancy, t) <= RemainingOf(occupancy, u)}

\* C29 as stated: among the tables with the same minimal leftover the
\* booking takes the one that comes first in the order of TABLE_CONFIG.
C29_TieByCatalogOrder ==
  [][ \A p \in Procs :
        ( /\ Completes(p, "create")
          /\ last'.result = "success"
          /\ op[p].pax >= 1
          /\ FittingTables(op[p].occupancy, op[p].pax) # {} )
        => \A u \in BestFits(op[p].occupancy, op[p].pax) :
             TableIndex[last'.assigned[1].table_id] <= TableIndex[u] ]_vars

\* t comes before u when the catalog is sorted by capacity, tables of equal
\* capacity staying in catalog order
BeforeByCapacity(t, u) ==
  \/ CapacityOf(t) < CapacityOf(u)
  \/ CapacityOf(t) = CapacityOf(u) /\ TableIndex[t] <= TableIndex[u]

\* C29 amended: among the tables with the same minimal leftover the booking
\* takes the one of the smallest capacity and, among those of equal
\* capacity, the one that comes first in the order of TABLE_CONFIG.
C29_TieByCapacityThenCatalog ==
  [][ \A p \in Procs :
        ( /\ Completes(p, "create")
          /\ last'.result = "success"
          /\ op[p].pax >= 1
          /\ FittingTables(op[p].occupancy, op[p].pax) # {} )
        => /\ last'.assigned[1].table_id
                \in BestFits(op[p].occupancy, op[p].pax)
           /\ \A u \in BestFits(op[p].occupancy, op[p].pax) :
                BeforeByCapacity(last'.assigned[1].table_id, u) ]_vars

\* a party of 2 was put on the empty 4-seat table 2F-C1 although the
\* 6-seat table 2F-B1, first in the catalog, had 2 booked and would have
\* been left with as many free seats
C29_Witness ==
  /\ last.kind = "create" /\ last.result = "success" /\ last.pax = 2
  /\ last.assigned = <<[table_id |-> "2F-C1", take |-> 2]>>
  /\ BookedPax(ReadOccupancy(1), "2F-C1") = 2
  /\ BookedPax(ReadOccupancy(1), "2F-B1") = 2
  /\ BookedPax(ReadOccupancy(1), "2F-D1") = 0

\* C30: a create_reservation that succeeds answers the id of the new
\* reservation with the ids of all assigned tables; the stored reservation
\* has the first of them as table_id and all of them, in the order of the
\* assignment, as all_tables, and they are exactly the tables whose
\* bookings lists name the reservation.
C30_AssignmentRecorded ==
  [][ \A p \in Procs :
        (Completes(p, "create") /\ last'.result = "success") =>
          /\ last'.res_id = op[p].res_id
          /\ op[p].res_id \notin DOMAIN reservations
          /\ op[p].res_id \in DOMAIN reservations'
          /\ last'.assigned # <<>>
          /\ reservations'[op[p].res_id].table_id = last'.assigned[1].table_id
          /\ reservations'[op[p].res_id].all_tables = AllTables(last'.assigned)
          /\ \A i, j \in 1..Len(last'.assigned) :
               i # j => last'.assigned[i].table_id # last'.assigned[j].table_id
          /\ \A d \in Dates : d = op[p].date =>
               TablesOf(ReadOccupancy(d)', op[p].res_id)
                 = {last'.assigned[i].table_id : i \in 1..Len(last'.assigned)} ]_vars

\* a party of 7 was put on two tables and the reservation records both
C30_Witness ==
  /\ last.kind = "create" /\ last.result = "success"
  /\ Len(last.assigned) = 2
  /\ last.res_id \in DOMAIN reservations
  /\ reservations[last.res_id].all_tables
       = <<last.assigned[1].table_id, last.assigned[2].table_id>>
  /\ TablesOf(ReadOccupancy(last.date), last.res_id)
       = {last.assigned[1].table_id, last.assigned[2].table_id}

\* C31: check_availability, when it has read the date's occupancy, answers
\* true exactly when one table on its own has at least pax seats left (a
\* table without an entry counting as empty); it answers false when only
\* several tables together could seat the party.
C31_CheckIsSingleTable ==
  (last.kind = "check" /\ last.how = "returned") =>
     /\ last.result \in {"true", "false"}
     /\ last.result = "true" <=>
          \E t \in TableIds :
            CapacityOf(t)
              - (IF last.date \in DOMAIN daily_slots
                    /\ t \in DOMAIN daily_slots[last.date]
                 THEN daily_slots[last.date][t].booked_pax ELSE 0)
              >= last.pax
     /\ ( /\ FittingTables(ReadOccupancy(last.date), last.pax) = {}
          /\ TotalRemaining(ReadOccupancy(last.date)) >= last.pax )
        => last.result = "false"

\* a party of 6 was told true because the 6-seat table 3F-F1, which has no
\* entry, is free, while 2F-B1 was full
C31_Witness ==
  /\ last.kind = "check" /\ last.how = "returned"
  /\ last.pax = 6 /\ last.result = "true"
  /\ BookedPax(ReadOccupancy(last.date), "2F-B1") = 6
  /\ "3F-F1" \notin DOMAIN ReadOccupancy(last.date)

\* the run of the body that caller p is in gets to a read that comes
\* after a queued write: the slot read of delete_in_transaction after
\* transaction.delete, the old-slot read of modify_in_transaction after
\* transaction.update and transaction.set
ReadsAfterWrite(o) ==
  \/ o.kind = "delete" /\ o.snap_res.exists
  \/ Moves(o, o.snap_res) /\ o.new_table_id # NoTable

\* C32: no run of a transaction body issues a read after it has queued a
\* write, so no cancellation of an existing reservation and no move to
\* another slot fails with the store's rejection of such a read.
C32_ReadsBeforeWrites ==
  \A p \in Procs :
    pc[p] = "read" =>
      /\ ~ReadsAfterWrite(op[p])
      /\ ~(Body(op[p]).raised /\ Body(op[p]).exc = "ReadAfterWriteError")

\* C33: the user is given the booking-confirmed answer, and the admins the
\* notification of a new reservation, only for a create_reservation that
\* committed a reservation; the answer never carries "overbooked" or None
\* as the reservation id.
C33_ConfirmedOnlyIfCommitted ==
  last.kind = "create" =>
     /\ BookReply(TRUE, last.result).msg = "book_success" =>
          /\ last.how = "committed"
          /\ BookReply(TRUE, last.result).reservation_id
               \notin {"overbooked", "none"}
     /\ NotifiesAdmin(BookReply(TRUE, last.result)) => last.how = "committed"

\* the number of bookings entries of table t on date d that carry id
EntriesFor(d, t, id) ==
  Cardinality({i \in 1..Len(EntryOf(ReadOccupancy(d), t).bookings) :
                 EntryOf(ReadOccupancy(d), t).bookings[i].res_id = id})

\* C34: a booking whose runs were aborted by conflicts has no record and
\* no bookings entry while it is being re-run; when it commits, its
\* assignment is the one computed from the occupancy its committing run
\* read, which is the stored one, and there is then one Reservation record
\* for it and one bookings entry with its id on each assigned table and on
\* no other, the seats adding up to the party size.
C34_RetryLeavesNoTrace ==
  [][ \A p \in Procs :
        (pc[p] \in {"read", "retry"} /\ op[p].kind = "create"
           /\ op[p].attempt >= 2) =>
          /\ op[p].res_id \notin DOMAIN reservations
          /\ \A d \in Dates, t \in TableIds : EntriesFor(d, t, op[p].res_id) = 0
          /\ (pc'[p] = "idle" /\ last'.how = "committed") =>
               /\ op[p].occupancy = ReadOccupancy(op[p].date)
               /\ last'.assigned
                    = Allocate(ReadOccupancy(op[p].date), op[p].pax).assigned_tables
               /\ op[p].res_id \in DOMAIN reservations'
               /\ reservations'[op[p].res_id].pax = op[p].pax
               /\ \A id \in DOMAIN reservations' \ {op[p].res_id} :
                    id \in DOMAIN reservations
               /\ \A d \in Dates, t \in TableIds, id \in {op[p].res_id} :
                    EntriesFor(d, t, id)' =
                      IF d = op[p].date
                           /\ \E i \in 1..Len(last'.assigned) :
                                last'.assigned[i].table_id = t
                      THEN 1 ELSE 0
               /\ \A d \in Dates : d = op[p].date =>
                    BookedFor(ReadOccupancy(d)', op[p].res_id) = op[p].pax ]_vars

\* a party of 20 was put on several tables by its second run
C34_Witness ==
  /\ last.kind = "create" /\ last.how = "committed" /\ last.attempt = 2
  /\ last.pax = 20
  /\ Len(last.assigned) >= 2
  /\ Cardinality(TablesOf(ReadOccupancy(last.date), last.res_id))
       = Len(last.assigned)

\* caller p completes a delete_reservation or modify_reservation of id that
\* ran while the other of the two operations on the same id completed: the
\* other is the latest completed call, and p was in progress when a write
\* was committed (its snapshot is out of date or it is on a later run)
Overlapped(p, id) ==
  /\ Completes(p, "delete") \/ Completes(p, "modify")
  /\ op[p].res_id = id
  /\ last.kind \in {"delete", "modify"} /\ last.kind # op[p].kind
  /\ last.res_id = id
  /\ op[p].stale \/ op[p].attempt >= 2

\* C35: when a delete_reservation and a modify_reservation of the same
\* reservation overlap, the later one sees what the earlier one did (a
\* modify after the cancellation does not succeed), and once both are done
\* the reservation is either out of the ledger and holds no seat on any
\* date, or in the ledger and holds seats summing to its pax on its date.
C35_DeleteModifySerialize ==
  [][ \A p \in Procs, id \in ResIds :
        Overlapped(p, id) =>
          /\ (op[p].kind = "modify" /\ last.result = "true") =>
               last'.result # "success"
          /\ id \notin DOMAIN reservations' =>
               \A d \in Dates : id \notin IdsIn(ReadOccupancy(d)')
          /\ id \in DOMAIN reservations' =>
               \A d \in Dates : d = reservations'[id].date =>
                 BookedFor(ReadOccupancy(d)', id) = reservations'[id].pax ]_vars

\* no table of any stored date holds more pax than its capacity
NoTableOversold ==
  \A d \in DOMAIN daily_slots : \A t \in DOMAIN daily_slots[d] :
    daily_slots[d][t].booked_pax <= CapacityOf(t)

\* C36: a run of sync_reservations_to_slots that starts from an occupancy
\* without an oversold table ends with an occupancy without one, also when
\* a reservation spread over several tables keeps only its first table in
\* table_id.
C36_SyncNeverOversells ==
  [][ ((\E p \in Procs : sync_reservations_to_slots(p)) /\ NoTableOversold)
        => NoTableOversold' ]_vars

\* C37: reset_and_repair_properly runs to completion whatever the ledger
\* holds, and after it the rebuilt occupancy is stored: it never ends with
\* the daily_slots documents deleted while confirmed reservations exist.
C37_ResetCompletes ==
  last.kind = "reset" =>
     /\ last.how = "committed"
     /\ last.result = "done"
     /\ (\E id \in DOMAIN reservations : reservations[id].status = "confirmed")
          => daily_slots # <<>>

\* the pax of the bookings before index j
PaxBefore(bookings, j) == SumPax(SubSeq(bookings, 1, j - 1))

\* C38: on a rendered seating map, the seat_map of every table is as long
\* as the pax of its bookings add up to (so as long as booked_pax and no
\* longer than the capacity when booked_pax is that sum and within the
\* capacity), and the res_id of each booking fills the pax seats that
\* follow the seats of the bookings before it.
C38_SeatMapFollowsBookings ==
  last.kind = "seating_map" =>
    \A n \in 1..Len(last.assigned) :
      LET e == last.assigned[n] IN
        /\ Len(e.seat_map) = SumPax(e.bookings)
        /\ (e.booked_pax = SumPax(e.bookings)
              /\ e.booked_pax <= CapacityOf(e.table_id)) =>
             /\ Len(e.seat_map) = e.booked_pax
             /\ Len(e.seat_map) <= CapacityOf(e.table_id)
        /\ \A j \in 1..Len(e.bookings) :
             \A i \in 1..e.bookings[j].pax :
               /\ PaxBefore(e.bookings, j) + i \in 1..Len(e.seat_map)
               /\ e.seat_map[PaxBefore(e.bookings, j) + i] = e.bookings[j].res_id

====
